---------------------------- MODULE Spec2Model ----------------------------
(***************************************************************************)
(* A model of funpolice.py: the per-guild configuration cache              *)
(* (ConfigCache), the configuration store it reads (load_server_config /   *)
(* save_server_config), the handlers that use them, and the word filter    *)
(* (WordFilter.get_pattern, detect_and_replace_words and its helpers).     *)
(*                                                                         *)
(* Text is a sequence of one-character strings; offsets are Python's       *)
(* 0-based half-open offsets, so the span [s, e) covers text[s+1..e].      *)
(***************************************************************************)
EXTENDS Integers, Sequences, FiniteSets, TLC

-----------------------------------------------------------------------------
(* Characters: str.lower / str.upper, \w and \s of Python's re module.     *)

LowerSeq == << "a","b","c","d","e","f","g","h","i","j","k","l","m",
               "n","o","p","q","r","s","t","u","v","w","x","y","z" >>
UpperSeq == << "A","B","C","D","E","F","G","H","I","J","K","L","M",
               "N","O","P","Q","R","S","T","U","V","W","X","Y","Z" >>
LowerSet == { LowerSeq[i] : i \in 1..26 }
UpperSet == { UpperSeq[i] : i \in 1..26 }
Digits   == { "0","1","2","3","4","5","6","7","8","9" }
Spaces   == { " " }
Symbols  == { "*", ".", "-", "_", "#", "!", "?", "+", "=", "@", "$", "\\", ",", "'" }
Chars    == LowerSet \cup UpperSet \cup Digits \cup Spaces \cup Symbols

LowerOf == [ c \in UpperSet |-> LowerSeq[CHOOSE i \in 1..26 : UpperSeq[i] = c] ]
UpperOf == [ c \in LowerSet |-> UpperSeq[CHOOSE i \in 1..26 : LowerSeq[i] = c] ]

\* str.lower() / str.upper() of one character
lower(c) == IF c \in UpperSet THEN LowerOf[c] ELSE c
upper(c) == IF c \in LowerSet THEN UpperOf[c] ELSE c

\* str.lower() / str.upper() of a string
str_lower(s) == [ i \in 1..Len(s) |-> lower(s[i]) ]
str_upper(s) == [ i \in 1..Len(s) |-> upper(s[i]) ]

\* \w : letters, digits and the underscore
IsWordChar(c) == c \in LowerSet \cup UpperSet \cup Digits \cup {"_"}
\* \s
IsSpaceChar(c) == c \in Spaces

WordChars     == { c \in Chars : IsWordChar(c) }
\* [^\w\s]
NonWordNonSpace == { c \in Chars : ~IsWordChar(c) /\ ~IsSpaceChar(c) }

Min(a, b) == IF a < b THEN a ELSE b

-----------------------------------------------------------------------------
(* The regular expressions the program builds, as sequences of nodes, and  *)
(* the backtracking matcher of re.finditer(pattern, text, re.IGNORECASE).  *)

\* a character class with a quantifier: "1" (exactly one), "?", "+", "*" (greedy)
Cls(S, q) == [ t |-> "cls", set |-> S, q |-> q, sub |-> << >> ]
\* \b
Wb == [ t |-> "wb", set |-> {}, q |-> "1", sub |-> << >> ]
\* (?: ... )?
Opt(items) == [ t |-> "opt", set |-> {}, q |-> "?", sub |-> items ]

\* membership in a class under re.IGNORECASE
InClass(c, S) == c \in S \/ lower(c) \in S \/ upper(c) \in S

\* \b at offset p of text: exactly one side of the offset is a word character
IsBoundary(text, p) ==
    LET before == p > 0 /\ IsWordChar(text[p])
        after  == p < Len(text) /\ IsWordChar(text[p + 1])
    IN  before # after

\* the length of the longest run of characters of class S starting at offset pos
RECURSIVE RunLen(_, _, _)
RunLen(text, pos, S) ==
    IF pos < Len(text) /\ InClass(text[pos + 1], S)
    THEN 1 + RunLen(text, pos + 1, S)
    ELSE 0

RECURSIVE MatchAt(_, _, _, _)
RECURSIVE TryRuns(_, _, _, _, _, _)

\* a greedy quantifier gives back one character at a time: the first count k
\* in hi, hi-1, .., lo for which the rest of the pattern matches
TryRuns(items, i, pos, text, k, lo) ==
    IF k < lo THEN -1
    ELSE LET r == MatchAt(items, i + 1, pos + k, text)
         IN  IF r # -1 THEN r ELSE TryRuns(items, i, pos, text, k - 1, lo)

\* the end offset of the match of items[i..] that the backtracking matcher finds
\* first at offset pos, or -1 when there is none
MatchAt(items, i, pos, text) ==
    IF i > Len(items) THEN pos
    ELSE LET it == items[i] IN
         CASE it.t = "wb" ->
                IF IsBoundary(text, pos) THEN MatchAt(items, i + 1, pos, text) ELSE -1
           [] it.t = "opt" ->
                LET r == MatchAt(it.sub \o SubSeq(items, i + 1, Len(items)), 1, pos, text)
                IN  IF r # -1 THEN r ELSE MatchAt(items, i + 1, pos, text)
           [] OTHER ->
                LET run == RunLen(text, pos, it.set)
                    hi  == IF it.q \in {"1", "?"} THEN Min(run, 1) ELSE run
                    lo  == IF it.q \in {"1", "+"} THEN 1 ELSE 0
                IN  TryRuns(items, i, pos, text, hi, lo)

\* re.finditer: leftmost matches, scanned left to right without overlap; after
\* an empty match the scanner must advance
RECURSIVE finditer_from(_, _, _, _)
finditer_from(items, text, pos, must_advance) ==
    IF pos > Len(text) THEN << >>
    ELSE LET e  == MatchAt(items, 1, pos, text)
             ok == e # -1 /\ ~(must_advance /\ e = pos)
         IN  IF ok
             THEN << [start |-> pos, end |-> e] >> \o finditer_from(items, text, e, e = pos)
             ELSE finditer_from(items, text, pos + 1, FALSE)

finditer(items, text) == finditer_from(items, text, 0, FALSE)

\* re.escape(s) used as a pattern: the characters of s, literally
Literal(s) == [ i \in 1..Len(s) |-> Cls({s[i]}, "1") ]

-----------------------------------------------------------------------------
(* WordFilter.get_pattern: the patterns synthesized for one banned word.   *)

LEETSPEAK_MAP ==
    ("4" :> "a") @@ ("@" :> "a") @@ ("3" :> "e") @@ ("1" :> "i") @@ ("!" :> "i") @@
    ("0" :> "o") @@ ("5" :> "s") @@ ("$" :> "s") @@ ("7" :> "t") @@ ("+" :> "t") @@
    ("2" :> "z") @@ ("6" :> "g") @@ ("8" :> "b") @@ ("9" :> "g")

\* the characters re.escape puts a backslash before, among those the model uses
EscapedChars == { "*", ".", "-", "#", "?", "+", "$", "\\", " " }

\* what the class gains from re.escape(re.escape(leet)): the leet character, and
\* a literal backslash when the first escape added one
LeetOption(leet) == IF leet \in EscapedChars THEN { leet, "\\" } ELSE { leet }

WildcardChars == { "*", ".", "-", "_", "#", "!", "?", "+", "=" }

\* char_options without the wildcards of the middle positions
char_options_no_wildcards(word, i) ==
    { upper(word[i]), lower(word[i]) }
    \cup UNION { LeetOption(leet) : leet \in { l \in DOMAIN LEETSPEAK_MAP :
                                                 LEETSPEAK_MAP[l] = lower(word[i]) } }

\* char_options with the wildcards at every position
char_options_wildcards_everywhere(word, i) ==
    char_options_no_wildcards(word, i) \cup { "*", ".", "-", "_", "#", "!", "?", "+", "=" }

\* char_options of position i (1-based) of word in the leetspeak/wildcard pattern
char_options(word, i) ==
    { upper(word[i]), lower(word[i]) }
    \cup UNION { LeetOption(leet) : leet \in { l \in DOMAIN LEETSPEAK_MAP :
                                                 LEETSPEAK_MAP[l] = lower(word[i]) } }
    \cup ( IF 1 < i /\ i < Len(word) THEN WildcardChars ELSE {} )

\* \bword s?\b
ExactPattern(word) == << Wb >> \o Literal(word) \o << Cls({"s"}, "?"), Wb >>

\* \b[..]+[..]+...[..]+s?\b
LeetPattern(word) ==
    << Wb >> \o [ i \in 1..Len(word) |-> Cls(char_options(word, i), "+") ]
            \o << Cls({"s"}, "?"), Wb >>

\* a separator taking any run of whitespace and punctuation: (?:\s|[^\w\s])*
Separator_any_run == << Cls(Spaces \cup NonWordNonSpace, "*") >>

\* \s*[^\w\s]*\s*
Separator == << Cls(Spaces, "*"), Cls(NonWordNonSpace, "*"), Cls(Spaces, "*") >>

RECURSIVE spaced_parts(_, _)
spaced_parts(word, i) ==
    IF i > Len(word) THEN << >>
    ELSE (IF i > 1 THEN Separator ELSE << >>)
         \o << Cls({ upper(word[i]), lower(word[i]) }, "1") >>
         \o spaced_parts(word, i + 1)

\* \b[Xx]sep[Yy]sep...(?:sep[sS])?\b
SpacedPattern(word) ==
    << Wb >> \o spaced_parts(word, 1)
            \o << Opt(Separator \o << Cls({"s", "S"}, "1") >>), Wb >>

\* the length from which a word gets the evasion patterns
MinEvasionLen == 3

\* a list with the spaced pattern before the leetspeak/wildcard pattern
get_pattern_spaced_first(word) ==
    << [pattern |-> ExactPattern(word), base_word |-> word, is_evasion |-> FALSE] >>
    \o ( IF Len(word) >= MinEvasionLen
         THEN << [pattern |-> SpacedPattern(word), base_word |-> word, is_evasion |-> TRUE],
                 [pattern |-> LeetPattern(word), base_word |-> word, is_evasion |-> TRUE] >>
         ELSE << >> )

\* the list of (pattern, word, is_evasion) of a word
get_pattern(word) ==
    << [pattern |-> ExactPattern(word), base_word |-> word, is_evasion |-> FALSE] >>
    \o ( IF Len(word) >= MinEvasionLen
         THEN << [pattern |-> LeetPattern(word), base_word |-> word, is_evasion |-> TRUE],
                 [pattern |-> SpacedPattern(word), base_word |-> word, is_evasion |-> TRUE] >>
         ELSE << >> )

-----------------------------------------------------------------------------
(* preserve_case and pluralize_replacement.                                *)

IsCased(c) == c \in LowerSet \cup UpperSet
\* str.isupper() / str.islower(): at least one cased character, all of that case
isupper(s) == (\E i \in 1..Len(s) : IsCased(s[i])) /\ (\A i \in 1..Len(s) : s[i] \notin LowerSet)
islower(s) == (\E i \in 1..Len(s) : IsCased(s[i])) /\ (\A i \in 1..Len(s) : s[i] \notin UpperSet)
\* str.capitalize()
capitalize(s) == [ i \in 1..Len(s) |-> IF i = 1 THEN upper(s[i]) ELSE lower(s[i]) ]
\* str.endswith(suffix)
endswith(s, suffix) ==
    Len(s) >= Len(suffix) /\ SubSeq(s, Len(s) - Len(suffix) + 1, Len(s)) = suffix

preserve_case(original, replacement) ==
    IF original = << >> \/ replacement = << >> THEN replacement
    ELSE IF isupper(original) THEN str_upper(replacement)
    ELSE IF islower(original) THEN str_lower(replacement)
    ELSE IF original[1] \in UpperSet /\ (Len(original) = 1 \/ islower(Tail(original)))
         THEN capitalize(replacement)
    ELSE [ i \in 1..Len(replacement) |->
             IF i <= Len(original) /\ original[i] \in UpperSet
             THEN upper(replacement[i]) ELSE lower(replacement[i]) ]

\* a plural that is always the replacement and an s
pluralize_replacement_plain_s(match, replacement) ==
    preserve_case(match, replacement \o << "s" >>)

pluralize_replacement(match, replacement) ==
    LET plural_replacement ==
          IF endswith(replacement, << "y" >>)
          THEN SubSeq(replacement, 1, Len(replacement) - 1) \o << "i", "e", "s" >>
          ELSE IF endswith(replacement, << "s", "h" >>) \/ endswith(replacement, << "c", "h" >>)
                  \/ endswith(replacement, << "x" >>)
          THEN replacement \o << "e", "s" >>
          ELSE replacement \o << "s" >>
    IN  preserve_case(match, plural_replacement)

-----------------------------------------------------------------------------
(* detect_and_replace_words.  forbidden is the dict of load_server_config  *)
(* in insertion order: a sequence of [word, replacement, whitelist].       *)

\* text[start:end]
Slice(text, start, end) == SubSeq(text, start + 1, end)

\* an intersection test that only looks for the start of the first span inside
\* the second
Overlaps_start_inside(s1, e1, s2, e2) == s2 <= s1 /\ s1 < e2

\* not (match_end <= w_start or match_start >= w_end)
Overlaps(s1, e1, s2, e2) == ~(e1 <= s2 \/ s1 >= e2)

\* the occurrences re.finditer(re.escape(whitelisted.lower()), content_lower)
\* yields; both strings are lowercased, so the match is of equal characters
whitelist_matches(whitelisted, content) ==
    finditer(Literal(str_lower(whitelisted)), str_lower(content))

\* skip_match: the match overlaps an occurrence of a whitelisted phrase
skip_match(m, whitelist, content) ==
    \E k \in 1..Len(whitelist) :
        LET occ == whitelist_matches(whitelist[k], content)
        IN  \E j \in 1..Len(occ) : Overlaps(m.start, m.end, occ[j].start, occ[j].end)

\* re.sub(r'[^\w]', '', s)
RECURSIVE strip_non_word(_)
strip_non_word(s) ==
    IF s = << >> THEN << >>
    ELSE (IF IsWordChar(Head(s)) THEN << Head(s) >> ELSE << >>) \o strip_non_word(Tail(s))

\* re.sub(r'(.)\1+', r'\1', s): every run of one repeated character becomes one
RECURSIVE collapse(_)
collapse(s) ==
    IF Len(s) <= 1 THEN s
    ELSE IF s[1] = s[2] THEN collapse(Tail(s))
    ELSE << s[1] >> \o collapse(Tail(s))

\* c * 2 in s
HasDouble(c, s) == \E i \in 1..(Len(s) - 1) : s[i] = c /\ s[i + 1] = c

\* the length tolerance of the repeated-character check
LengthTolerance == 2

\* the characters of clean_match that are in clean_target, counted with
\* their repetitions
matching_chars(clean_match, clean_target) ==
    Cardinality({ i \in 1..Len(clean_match) :
                     \E j \in 1..Len(clean_target) : clean_target[j] = clean_match[i] })

\* the share of matching characters taken over the clean match
too_few_letters_of_match(matched_text, base_word) ==
    LET clean_match  == strip_non_word(str_lower(matched_text))
        clean_target == str_lower(base_word)
    IN  Len(clean_match) > 0
        /\ 2 * matching_chars(clean_match, clean_target) < Len(clean_match)

\* len(clean_match) > 0 and matching_chars / len(clean_target) < 0.5
too_few_letters(matched_text, base_word) ==
    LET clean_match  == strip_non_word(str_lower(matched_text))
        clean_target == str_lower(base_word)
    IN  Len(clean_match) > 0
        /\ 2 * matching_chars(clean_match, clean_target) < Len(clean_target)

\* the test on the collapsed repeats without its exception for a doubled
\* letter of the target
too_long_collapsed_no_exception(matched_text, base_word) ==
    LET clean_match      == strip_non_word(str_lower(matched_text))
        clean_target     == str_lower(base_word)
    IN  Len(collapse(clean_match)) > Len(collapse(clean_target)) + LengthTolerance

\* the test on the collapsed repeats
too_long_collapsed(matched_text, base_word) ==
    LET clean_match      == strip_non_word(str_lower(matched_text))
        clean_target     == str_lower(base_word)
        collapsed_match  == collapse(clean_match)
        collapsed_target == collapse(clean_target)
    IN  /\ Len(collapsed_match) > Len(collapsed_target) + LengthTolerance
        /\ ~ \E i \in 1..Len(clean_match) : HasDouble(clean_match[i], clean_target)

\* the validation of an evasion match: TRUE when the match is dropped
evasion_rejected(matched_text, base_word) ==
    \/ too_few_letters(matched_text, base_word)
    \/ too_long_collapsed(matched_text, base_word)

\* a plural test on the length alone
is_plural_by_length(matched_text, base_word) == Len(matched_text) > Len(base_word)

\* is_plural
is_plural(matched_text, base_word) ==
    endswith(str_lower(matched_text), << "s" >>) /\ Len(matched_text) > Len(base_word)

\* final_replacement
final_replacement(matched_text, base_word, replacement) ==
    IF is_plural(matched_text, base_word)
    THEN pluralize_replacement(matched_text, replacement)
    ELSE preserve_case(matched_text, replacement)

\* a loop body that validates the matches of every pattern, exact or not
match_kept_all_validated(m, p, whitelist, content) ==
    /\ ~skip_match(m, whitelist, content)
    /\ ~evasion_rejected(Slice(content, m.start, m.end), p.base_word)

\* whether the body of the finditer loop appends the match m of pattern p
match_kept(m, p, whitelist, content) ==
    /\ ~skip_match(m, whitelist, content)
    /\ ~(p.is_evasion /\ evasion_rejected(Slice(content, m.start, m.end), p.base_word))

\* what one pattern appends to matches_to_replace
RECURSIVE pattern_matches(_, _, _, _, _)
pattern_matches(ms, p, filter_data, content, k) ==
    IF k > Len(ms) THEN << >>
    ELSE (IF match_kept(ms[k], p, filter_data.whitelist, content)
          THEN << [start |-> ms[k].start, end |-> ms[k].end,
                   repl  |-> final_replacement(Slice(content, ms[k].start, ms[k].end),
                                               p.base_word, filter_data.replacement)] >>
          ELSE << >>)
         \o pattern_matches(ms, p, filter_data, content, k + 1)

\* what one forbidden word appends to matches_to_replace, pattern by pattern
RECURSIVE word_matches(_, _, _, _)
word_matches(patterns, filter_data, content, k) ==
    IF k > Len(patterns) THEN << >>
    ELSE pattern_matches(finditer(patterns[k].pattern, content), patterns[k],
                         filter_data, content, 1)
         \o word_matches(patterns, filter_data, content, k + 1)

\* matches_to_replace after the loop over forbidden.items()
RECURSIVE collect_matches(_, _, _)
collect_matches(content, forbidden, k) ==
    IF k > Len(forbidden) THEN << >>
    ELSE word_matches(get_pattern(forbidden[k].word), forbidden[k], content, 1)
         \o collect_matches(content, forbidden, k + 1)

\* a sort without reverse=True
SortsBefore_ascending(a, b) == a.start < b.start

\* the sort key orders two matches: a goes before b
SortsBefore(a, b) == a.start > b.start

\* list.sort(key=lambda x: x[0], reverse=True): stable, by insertion
RECURSIVE insert_sorted(_, _)
insert_sorted(sorted, x) ==
    IF sorted = << >> THEN << x >>
    ELSE IF SortsBefore(x, Head(sorted)) THEN << x >> \o sorted
    ELSE << Head(sorted) >> \o insert_sorted(Tail(sorted), x)

RECURSIVE sort_matches(_)
sort_matches(ms) ==
    IF ms = << >> THEN << >>
    ELSE insert_sorted(sort_matches(SubSeq(ms, 1, Len(ms) - 1)), ms[Len(ms)])

\* overlaps: the match intersects a match already in filtered_matches
overlaps_existing(m, filtered) ==
    \E j \in 1..Len(filtered) : Overlaps(m.start, m.end, filtered[j].start, filtered[j].end)

\* filtered_matches after the first k matches of the sorted list
RECURSIVE filter_overlaps(_, _)
filter_overlaps(sorted, k) ==
    IF k = 0 THEN << >>
    ELSE LET filtered == filter_overlaps(sorted, k - 1)
         IN  IF overlaps_existing(sorted[k], filtered) THEN filtered
             ELSE Append(filtered, sorted[k])

\* a replacement written over the text at start instead of spliced in for the span
replace_span_overwrite(text, m) ==
    SubSeq(text, 1, Min(m.start, Len(text))) \o m.repl
    \o SubSeq(text, m.start + Len(m.repl) + 1, Len(text))

\* new_content[:start] + replacement + new_content[end:]
replace_span(text, m) ==
    SubSeq(text, 1, Min(m.start, Len(text))) \o m.repl \o SubSeq(text, m.end + 1, Len(text))

\* new_content after the first k replacements
RECURSIVE apply_replacements(_, _, _)
apply_replacements(content, filtered, k) ==
    IF k = 0 THEN content
    ELSE replace_span(apply_replacements(content, filtered, k - 1), filtered[k])

detect_and_replace_words(content, forbidden) ==
    IF forbidden = << >> THEN content
    ELSE LET matches_to_replace == sort_matches(collect_matches(content, forbidden, 1))
             filtered_matches   == filter_overlaps(matches_to_replace, Len(matches_to_replace))
         IN  apply_replacements(content, filtered_matches, Len(filtered_matches))

\* re.finditer(pattern, content, re.IGNORECASE) where the regular expression
\* engine may refuse the pattern: raises tells whether it raises re.error
re_finditer(pattern, content, raises) ==
    IF raises THEN [ error |-> TRUE,  found |-> << >> ]
    ELSE           [ error |-> FALSE, found |-> finditer(pattern, content) ]

\* what the rest of the loops gives: the matches appended, the patterns
\* printed as failing, and whether an exception left the function
Collected(ms, printed, raised) == [ matches |-> ms, printed |-> printed, raised |-> raised ]

\* no try around the loop over the matches: re.error leaves the function
regex_error_propagates(id, rest) == Collected(<< >>, << >>, TRUE)

\* except re.error as e: print(...); continue
except_regex_error(id, rest) == Collected(rest.matches, << id >> \o rest.printed, rest.raised)

\* the loop over the patterns of the forbidden word k, from the pattern j on;
\* raising holds the << k, j >> whose pattern raises re.error
RECURSIVE word_matches_raising(_, _, _, _, _, _)
word_matches_raising(patterns, filter_data, content, k, j, raising) ==
    IF j > Len(patterns) THEN Collected(<< >>, << >>, FALSE)
    ELSE LET tried == re_finditer(patterns[j].pattern, content, << k, j >> \in raising)
             rest  == word_matches_raising(patterns, filter_data, content, k, j + 1, raising)
         IN  IF tried.error THEN except_regex_error(<< k, j >>, rest)
             ELSE Collected(pattern_matches(tried.found, patterns[j], filter_data, content, 1)
                                \o rest.matches,
                            rest.printed, rest.raised)

\* the loop over forbidden.items(), from the forbidden word k on
RECURSIVE collect_matches_raising(_, _, _, _)
collect_matches_raising(content, forbidden, k, raising) ==
    IF k > Len(forbidden) THEN Collected(<< >>, << >>, FALSE)
    ELSE LET this == word_matches_raising(get_pattern(forbidden[k].word), forbidden[k],
                                          content, k, 1, raising)
             rest == collect_matches_raising(content, forbidden, k + 1, raising)
         IN  IF this.raised THEN this
             ELSE Collected(this.matches \o rest.matches, this.printed \o rest.printed,
                            rest.raised)

\* detect_and_replace_words(content, forbidden) when the patterns of raising
\* raise re.error: whether an exception leaves the function, what is printed,
\* the matches collected and the value returned
detect_and_replace_words_raising(content, forbidden, raising) ==
    IF forbidden = << >>
    THEN [ raised |-> FALSE, printed |-> << >>, matches |-> << >>, value |-> content ]
    ELSE LET c == collect_matches_raising(content, forbidden, 1, raising)
             matches_to_replace == sort_matches(c.matches)
             filtered_matches   == filter_overlaps(matches_to_replace, Len(matches_to_replace))
         IN  IF c.raised
             THEN [ raised |-> TRUE, printed |-> c.printed, matches |-> << >>, value |-> << >> ]
             ELSE [ raised |-> FALSE, printed |-> c.printed, matches |-> c.matches,
                    value |-> apply_replacements(content, filtered_matches,
                                                 Len(filtered_matches)) ]

-----------------------------------------------------------------------------
(* WordFilter: the pattern cache in front of the synthesis of get_pattern.  *)
(* self.patterns and self.last_update are written together; the cache is   *)
(* a function from keys to entries.                                         *)

pattern_timeout == 3600

NoPatterns == [ present |-> FALSE, patterns |-> << >>, last_update |-> 0 ]

\* a cache keyed by the replacement
cache_key_replacement(word, replacement) == replacement

\* cache_key = word
cache_key(word, replacement) == word

\* cache_key in self.patterns and current_time - self.last_update.get(cache_key, 0)
\* < self.pattern_timeout
pattern_hit(cache, key, t) ==
    cache[key].present /\ (t - cache[key].last_update) < pattern_timeout

\* WordFilter.get_pattern(word, replacement) at time t: the patterns returned and
\* the cache afterwards
WordFilter_get_pattern(cache, word, replacement, t) ==
    LET key == cache_key(word, replacement)
    IN  IF pattern_hit(cache, key, t)
        THEN [ patterns |-> cache[key].patterns, cache |-> cache, hit |-> TRUE ]
        ELSE [ patterns |-> get_pattern(word),
               cache    |-> [ cache EXCEPT ![key] =
                                [ present |-> TRUE, patterns |-> get_pattern(word),
                                  last_update |-> t ] ],
               hit      |-> FALSE ]

\* the loop over forbidden.items() with the patterns taken from word_filter:
\* matches_to_replace, the cache afterwards, and the number of cache hits
RECURSIVE collect_matches_cached(_, _, _, _, _)
collect_matches_cached(content, forbidden, k, cache, t) ==
    IF k > Len(forbidden) THEN [ matches |-> << >>, cache |-> cache, hits |-> 0 ]
    ELSE LET got  == WordFilter_get_pattern(cache, forbidden[k].word,
                                            forbidden[k].replacement, t)
             rest == collect_matches_cached(content, forbidden, k + 1, got.cache, t)
         IN  [ matches |-> word_matches(got.patterns, forbidden[k], content, 1)
                           \o rest.matches,
               cache   |-> rest.cache,
               hits    |-> rest.hits + (IF got.hit THEN 1 ELSE 0) ]

\* detect_and_replace_words on the word_filter whose cache is `cache`, at time t
detect_with_cache(content, forbidden, cache, t) ==
    IF forbidden = << >>
    THEN [ output |-> content, filtered_matches |-> << >>, cache |-> cache, hits |-> 0 ]
    ELSE LET collected == collect_matches_cached(content, forbidden, 1, cache, t)
             sorted    == sort_matches(collected.matches)
             filtered  == filter_overlaps(sorted, Len(sorted))
         IN  [ output           |-> apply_replacements(content, filtered, Len(filtered)),
               filtered_matches |-> filtered,
               cache            |-> collected.cache,
               hits             |-> collected.hits ]

-----------------------------------------------------------------------------
(* The configuration store: one JSON file per guild.  A file is missing,   *)
(* undecodable ("corrupt") or holds a configuration.  A configuration is   *)
(* the "replacements" dict in insertion order: a sequence of               *)
(* [replacement, words, whitelist].  No join or jail system is configured  *)
(* in the configurations modelled here: admin_config is empty, and the     *)
(* guild_name field, used for display only, is left out.                   *)

EmptyConfig == [ replacements |-> << >> ]

MissingFile      == [ kind |-> "missing", config |-> EmptyConfig ]
CorruptFile      == [ kind |-> "corrupt", config |-> EmptyConfig ]
JsonFile(config) == [ kind |-> "json",    config |-> config ]

\* d[key] = value on a dict kept in insertion order
dict_set(d, key, value) ==
    IF \E i \in 1..Len(d) : d[i].word = key
    THEN [ i \in 1..Len(d) |-> IF d[i].word = key THEN value ELSE d[i] ]
    ELSE Append(d, value)

\* the inner loop of load_server_config: the words of one replacement
RECURSIVE add_words(_, _, _, _)
add_words(forbidden, data, words, k) ==
    IF k > Len(words) THEN forbidden
    ELSE add_words(dict_set(forbidden, str_lower(words[k]),
                            [ word        |-> str_lower(words[k]),
                              replacement |-> data.replacement,
                              whitelist   |-> [ j \in 1..Len(data.whitelist) |->
                                                  str_lower(data.whitelist[j]) ] ]),
                   data, words, k + 1)

\* the forbidden dict load_server_config builds from config["replacements"]
RECURSIVE build_forbidden(_, _)
build_forbidden(replacements, k) ==
    IF k = 0 THEN << >>
    ELSE add_words(build_forbidden(replacements, k - 1), replacements[k],
                   replacements[k].words, 1)

\* a load that lets the decoding error of a damaged file escape
load_server_config_uncaught(file) ==
    IF file.kind = "json"
    THEN [ config    |-> file.config,
           forbidden |-> build_forbidden(file.config.replacements,
                                         Len(file.config.replacements)),
           raised    |-> FALSE ]
    ELSE [ config |-> EmptyConfig, forbidden |-> << >>, raised |-> file.kind = "corrupt" ]

\* load_server_config: (config, forbidden), and whether it raised.  A missing
\* file and a file json.load cannot decode both give the empty configuration.
load_server_config(file) ==
    IF file.kind = "json"
    THEN [ config    |-> file.config,
           forbidden |-> build_forbidden(file.config.replacements,
                                         Len(file.config.replacements)),
           raised    |-> FALSE ]
    ELSE [ config |-> EmptyConfig, forbidden |-> << >>, raised |-> FALSE ]

-----------------------------------------------------------------------------
(* ConfigCache: configs maps a guild to its entry.                         *)

cache_timeout == 300

NoEntry == [ present |-> FALSE, config |-> EmptyConfig, forbidden |-> << >>, timestamp |-> 0 ]

\* an entry stored without its time
NewEntry_unstamped(loaded, t) ==
    [ present |-> TRUE, config |-> loaded.config, forbidden |-> loaded.forbidden,
      timestamp |-> 0 ]

\* the entry ConfigCache.get stores after a load at time t
NewEntry(loaded, t) ==
    [ present |-> TRUE, config |-> loaded.config, forbidden |-> loaded.forbidden,
      timestamp |-> t ]

\* an entry that never expires
cache_hit_forever(cached, t) == cached.present

\* cached and (time.time() - cached['timestamp']) < self.cache_timeout
cache_hit(cached, t) == cached.present /\ (t - cached.timestamp) < cache_timeout

\* ConfigCache.get on the entry `cached` of a guild whose file is `file`, at time
\* t: the entry afterwards, what is returned, and the number of
\* load_server_config calls made
ConfigCache_get(cached, file, t) ==
    IF cache_hit(cached, t)
    THEN [ entry |-> cached, config |-> cached.config, forbidden |-> cached.forbidden,
           loads |-> 0, raised |-> FALSE ]
    ELSE LET loaded == load_server_config(file)
         IN  IF loaded.raised
             THEN [ entry |-> cached, config |-> EmptyConfig, forbidden |-> << >>,
                    loads |-> 1, raised |-> TRUE ]
             ELSE [ entry |-> NewEntry(loaded, t), config |-> loaded.config,
                    forbidden |-> loaded.forbidden, loads |-> 1, raised |-> FALSE ]

\* an invalidate that clears the whole dict
invalidate_every(cache, guild_id) == [ g \in DOMAIN cache |-> NoEntry ]

\* an invalidate that removes nothing
invalidate_nothing(cache, guild_id) == cache

\* ConfigCache.invalidate: self.configs.pop(cache_key, None)
invalidate(cache, guild_id) == [ cache EXCEPT ![guild_id] = NoEntry ]

\* a sweep that removes every entry older than the current instant
cache_expired_any_age(cached, t) == cached.present /\ (t - cached.timestamp) > 0

\* the condition under which cleanup_expired_cache removes an entry
cache_expired(cached, t) == cached.present /\ (t - cached.timestamp) > cache_timeout

\* ConfigCache.cleanup_expired_cache, on the configs dict
cleanup_expired_cache(cache, t) ==
    [ g \in DOMAIN cache |-> IF cache_expired(cache[g], t) THEN NoEntry ELSE cache[g] ]

-----------------------------------------------------------------------------
(* The admin commands that write the configuration.                        *)

HasReplacement(config, replacement) ==
    \E i \in 1..Len(config.replacements) : config.replacements[i].replacement = replacement

\* current_words after appending the words of word_list it does not hold yet
RECURSIVE append_new_words(_, _, _)
append_new_words(current_words, word_list, k) ==
    IF k > Len(word_list) THEN current_words
    ELSE append_new_words(
            IF \E i \in 1..Len(current_words) : current_words[i] = word_list[k]
            THEN current_words ELSE Append(current_words, word_list[k]),
            word_list, k + 1)

\* the configuration add_filter saves
add_filter_config(config, replacement, word_list) ==
    IF HasReplacement(config, replacement)
    THEN [ replacements |->
             [ i \in 1..Len(config.replacements) |->
                 IF config.replacements[i].replacement = replacement
                 THEN [ config.replacements[i] EXCEPT
                          !.words = append_new_words(config.replacements[i].words, word_list, 1) ]
                 ELSE config.replacements[i] ] ]
    ELSE [ replacements |-> Append(config.replacements,
             [ replacement |-> replacement, words |-> word_list, whitelist |-> << >> ]) ]

\* list.remove(x): the list without the first occurrence of x
list_remove(l, x) ==
    LET i == CHOOSE i \in 1..Len(l) : l[i] = x /\ \A j \in 1..(i - 1) : l[j] # x
    IN  SubSeq(l, 1, i - 1) \o SubSeq(l, i + 1, Len(l))

\* the sequence without its element i
without(l, i) == SubSeq(l, 1, i - 1) \o SubSeq(l, i + 1, Len(l))

\* found, in delete_filter: some replacement lists the word
delete_filter_found(config, word) ==
    \E i \in 1..Len(config.replacements) :
        \E j \in 1..Len(config.replacements[i].words) : config.replacements[i].words[j] = word

\* the configuration delete_filter saves when the word is found: the first
\* replacement listing the word loses it, and goes when that was its only word
delete_filter_config(config, word) ==
    LET holds(i) == \E j \in 1..Len(config.replacements[i].words) :
                        config.replacements[i].words[j] = word
        i == CHOOSE i \in 1..Len(config.replacements) :
                holds(i) /\ \A h \in 1..(i - 1) : ~holds(h)
        data == config.replacements[i]
    IN  IF Len(data.words) = 1 \/ list_remove(data.words, word) = << >>
        THEN [ replacements |-> without(config.replacements, i) ]
        ELSE [ replacements |-> [ config.replacements EXCEPT
                                    ![i].words = list_remove(data.words, word) ] ]

\* the entry of a replacement present in the configuration
replacement_data(config, replacement) ==
    config.replacements[CHOOSE i \in 1..Len(config.replacements) :
                            config.replacements[i].replacement = replacement]

\* existing + [w for w in old if w not in existing]
merge_lists(existing, old) ==
    existing \o SelectSeq(old, LAMBDA w : \A i \in 1..Len(existing) : existing[i] # w)

\* del config["replacements"][replacement]
del_replacement(config, replacement) ==
    [ replacements |-> SelectSeq(config.replacements,
                                 LAMBDA data : data.replacement # replacement) ]

\* the configuration rename_filter saves when old_replacement is present: its
\* words and whitelist go to new_replacement, merged with what that one
\* holds, and old_replacement is deleted
rename_filter_config(config, old_replacement, new_replacement) ==
    LET old_data == replacement_data(config, old_replacement)
        with_new ==
            IF HasReplacement(config, new_replacement)
            THEN [ replacements |->
                     [ i \in 1..Len(config.replacements) |->
                         LET existing_data == config.replacements[i]
                         IN  IF existing_data.replacement = new_replacement
                             THEN [ replacement |-> new_replacement,
                                    words     |-> merge_lists(existing_data.words,
                                                              old_data.words),
                                    whitelist |-> merge_lists(existing_data.whitelist,
                                                              old_data.whitelist) ]
                             ELSE existing_data ] ]
            ELSE [ replacements |-> Append(config.replacements,
                     [ replacement |-> new_replacement, words |-> old_data.words,
                       whitelist |-> old_data.whitelist ]) ]
    IN  del_replacement(with_new, old_replacement)

-----------------------------------------------------------------------------
(* Bounds and input sets.                                                  *)

\* the guilds the bot serves (bot.guilds)
Guilds == { 1, 2 }

\* the clock advances in steps of cache_timeout / TicksPerTimeout seconds,
\* MaxTicks times at most
TicksPerTimeout == 2
MaxTicks == 3
TickStep == cache_timeout \div TicksPerTimeout
MaxTime  == MaxTicks * TickStep

\* admin commands run and edits made outside the bot, in total
MaxWrites == 2

\* the replacement and the words the admin commands are given
CommandReplacements == { << "x" >> }
CommandWords        == { << "a", "b" >> }

\* the files an edit made outside the bot leaves behind
EditedFiles ==
    { CorruptFile,
      JsonFile([ replacements |-> << [ replacement |-> << "y" >>,
                                       words       |-> << << "b", "a" >> >>,
                                       whitelist   |-> << >> ] >> ]) }

\* the contents of the messages posted
Messages == { << "A", "b" >> }

-----------------------------------------------------------------------------
(* State.                                                                  *)

VARIABLES
    now,               \* time.time()
    store,             \* guild -> its configuration file
    configs,           \* config_cache.configs: guild -> entry
    tasks,             \* guild -> its on_message handler suspended at an await
    configs_nc,        \* history: configs as it would be had no cleanup ever run
    rebuilds,          \* history: guild -> loads made by get since its entry last
                       \*          went stale (invalidated, swept or expired)
    since_save,        \* history: guild -> a save succeeded and no get followed yet
    since_invalidate,  \* history: guild -> invalidated and no get followed yet
    last,              \* history: the operation that made the last step
    writes,            \* history: admin commands run and outside edits made so far
    \* ---- one run of detect_and_replace_words, statement by statement ----
    content,             \* the text being filtered
    forbidden,           \* the rule set
    matches_to_replace,  \* the matches collected, then sorted
    filtered_matches,    \* the matches accepted by the overlap loop
    accepted,            \* history: the positions in matches_to_replace of the accepted
    idx,                 \* the number of list elements the current loop has consumed
    new_content,         \* the text under replacement
    pc,                  \* the statement the run is at
    pass,                \* 1: the first run; 2: a run on the output of the first
    first_input,         \* the text the first run was given
    \* ---- word_filter ----
    patterns,            \* word_filter.patterns with last_update: key -> entry
    results,             \* history: what every call through word_filter returned
    last_run,            \* history: the last call through word_filter
    \* ---- the helpers called on their own ----
    call,                \* the last call of a helper: its name, arguments and result
    \* ---- the confirmation views of /deletereplacement ----
    views,               \* the views on display: (guild_id, replacement)
    \* ---- the jail system of one guild, with the objects the handlers hold ----
    member_roles,        \* member -> the roles Discord has for the member
    disk,                \* the admin_config of the guild's configuration file
    objects,             \* the admin_config objects made by load_server_config, by identity
    cached_object,       \* config_cache.configs[guild]: the object published, 0: no entry
    published,           \* history: the objects config_cache.get ever stored
    events,              \* the member updates not yet given to on_member_update
    jail_tasks,          \* member -> the /jail command on the member
    update_tasks,        \* the handlers suspended in after.edit, add_roles
    saves,               \* history: the calls of save_server_config
    commands             \* history: commands, messages, joins and manual role changes so far

cache_vars  == << now, store, configs, tasks, configs_nc, rebuilds, since_save,
                 since_invalidate, last, writes >>
filter_vars == << content, forbidden, matches_to_replace, filtered_matches, accepted,
                 idx, new_content, pc, pass, first_input >>
pattern_vars == << patterns, results, last_run >>
call_vars == << call, views >>
jail_vars == << member_roles, disk, objects, cached_object, published, events,
               jail_tasks, update_tasks, saves, commands >>
vars == << cache_vars, filter_vars, pattern_vars, call_vars, jail_vars >>

IdleTask == [ pc |-> "idle", message |-> << >>, new_content |-> << >> ]

\* what `last` records of one ConfigCache.get call
NoGet == [ called |-> FALSE, pre |-> NoEntry, nc_pre |-> NoEntry, loads |-> 0,
           raised |-> FALSE,
           config |-> EmptyConfig, forbidden |-> << >>,
           nc_config |-> EmptyConfig, nc_forbidden |-> << >>,
           after_save |-> FALSE, after_invalidate |-> FALSE ]

GetRecord(g) ==
    LET r  == ConfigCache_get(configs[g], store[g], now)
        rn == ConfigCache_get(configs_nc[g], store[g], now)
    IN  [ called |-> TRUE, pre |-> configs[g], nc_pre |-> configs_nc[g],
          loads |-> r.loads, raised |-> r.raised,
          config |-> r.config, forbidden |-> r.forbidden,
          nc_config |-> rn.config, nc_forbidden |-> rn.forbidden,
          after_save |-> since_save[g], after_invalidate |-> since_invalidate[g] ]

NoGets == [ g \in Guilds |-> NoGet ]

Op(name, g, gets, saved, spawned, text) ==
    [ op |-> name, guild |-> g, gets |-> gets, saved |-> saved, spawned |-> spawned,
      text |-> text,
      dropped |-> IF saved = "none" THEN NoEntry ELSE configs[g] ]

CacheInit ==
    /\ now = 0
    /\ store = [ g \in Guilds |-> MissingFile ]
    /\ configs = [ g \in Guilds |-> NoEntry ]
    /\ tasks = [ g \in Guilds |-> IdleTask ]
    /\ configs_nc = [ g \in Guilds |-> NoEntry ]
    /\ rebuilds = [ g \in Guilds |-> 0 ]
    /\ since_save = [ g \in Guilds |-> FALSE ]
    /\ since_invalidate = [ g \in Guilds |-> FALSE ]
    /\ last = Op("init", 0, NoGets, "none", FALSE, << >>)
    /\ writes = 0

FilterIdle ==
    /\ content = << >>
    /\ forbidden = << >>
    /\ matches_to_replace = << >>
    /\ filtered_matches = << >>
    /\ accepted = {}
    /\ idx = 0
    /\ new_content = << >>
    /\ pc = "idle"
    /\ pass = 0
    /\ first_input = << >>

\* the rule sets the word_filter is used with: one with candidates that
\* intersect, and one with the same words under one replacement
PatternRuleSets ==
    { << [ word |-> << "a", "-", "b" >>, replacement |-> << "x" >>, whitelist |-> << >> ],
         [ word |-> << "b", "-", "a" >>, replacement |-> << "y" >>,
           whitelist |-> << << "a", ".", "b" >> >> ],
         [ word |-> << "a" >>, replacement |-> << "z" >>, whitelist |-> << >> ] >>,
      << [ word |-> << "a", "-", "b" >>, replacement |-> << "x" >>, whitelist |-> << >> ],
         [ word |-> << "b", "-", "a" >>, replacement |-> << "x" >>, whitelist |-> << >> ] >> }

PatternTexts ==
    { << "a", "-", "b", "-", "a" >>,
      << "B", "-", "a", "s" >> }

\* the keys word_filter.patterns can get
CacheKeys ==
    UNION { { rules[k].word : k \in 1..Len(rules) }
            \cup { rules[k].replacement : k \in 1..Len(rules) } : rules \in PatternRuleSets }

NoCall == [ fn |-> "none", args |-> << >>, result |-> << >> ]

NoRun == [ called |-> FALSE, content |-> << >>, forbidden |-> << >>, output |-> << >>,
           filtered_matches |-> << >>, hits |-> 0, seen |-> FALSE ]

PatternIdle ==
    /\ patterns = [ key \in CacheKeys |-> NoPatterns ]
    /\ results = {}
    /\ last_run = NoRun
    /\ call = NoCall
    /\ views = {}

\* the members of the guild and its roles: @everyone, the managed role of a
\* bot, an ordinary role and the role given to jailed members
Members      == { 1, 2 }
DefaultRole  == "everyone"
ManagedRoles == { "bot" }
JailRole     == "jail"
Roles        == { DefaultRole, "bot", "mod", JailRole }

\* jailed_users without the member, and the admin_config of a guild that has
\* no configuration file ("": no jail_role_id)
NotJailed     == [ jailed |-> FALSE, roles |-> {} ]
NoAdminConfig == [ jail_role_id |-> "", jailed_users |-> [ u \in Members |-> NotJailed ] ]

\* no /jail command on the member
IdleJail == [ pc |-> "idle", config |-> 0, seen |-> 0, roles_to_keep |-> {},
              roles_before |-> {}, outcome |-> "none" ]

JailIdle ==
    /\ member_roles = [ u \in Members |-> IF u = 1 THEN { DefaultRole, "mod" }
                                                  ELSE { DefaultRole, "bot", "mod" } ]
    /\ disk = NoAdminConfig
    /\ objects = << >>
    /\ cached_object = 0
    /\ published = {}
    /\ events = << >>
    /\ jail_tasks = [ u \in Members |-> IdleJail ]
    /\ update_tasks = {}
    /\ saves = << >>
    /\ commands = 0

-----------------------------------------------------------------------------
(* The handlers.  A handler runs without interruption from one await to    *)
(* the next; ConfigCache.get, load_server_config and save_server_config    *)
(* contain no await.                                                       *)

\* the effect of config_cache.get(g) for every guild g of the set gs
GetEffect(gs) ==
    /\ configs' = [ g \in Guilds |->
                      IF g \in gs THEN ConfigCache_get(configs[g], store[g], now).entry
                      ELSE configs[g] ]
    /\ configs_nc' = [ g \in Guilds |->
                      IF g \in gs THEN ConfigCache_get(configs_nc[g], store[g], now).entry
                      ELSE configs_nc[g] ]
    /\ rebuilds' = [ g \in Guilds |->
                      IF g \in gs
                      THEN rebuilds[g] + ConfigCache_get(configs[g], store[g], now).loads
                      ELSE rebuilds[g] ]
    /\ since_save' = [ g \in Guilds |-> IF g \in gs THEN FALSE ELSE since_save[g] ]
    /\ since_invalidate' = [ g \in Guilds |-> IF g \in gs THEN FALSE ELSE since_invalidate[g] ]

\* on_message up to its first await: the message is left alone, or the handler
\* suspends in message.delete().  Messages carry no attachments, and a guild's
\* messages are handled one at a time.
on_message(g, message) ==
    /\ tasks[g].pc = "idle"
    /\ GetEffect({g})
    /\ LET got    == ConfigCache_get(configs[g], store[g], now)
           result == detect_and_replace_words(message, got.forbidden)
           goes   == ~got.raised /\ got.forbidden # << >> /\ result # message
       IN  /\ tasks' = IF goes
                       THEN [ tasks EXCEPT ![g] =
                                [ pc |-> "delete", message |-> message,
                                  new_content |-> result ] ]
                       ELSE tasks
           /\ last' = Op("on_message", g, [ NoGets EXCEPT ![g] = GetRecord(g) ], "none",
                         goes, message)
    /\ UNCHANGED << now, store, writes, filter_vars, pattern_vars, call_vars, jail_vars >>

\* message.delete() returns or raises.  discord.Forbidden ends the handler; after
\* any other outcome get_webhook is awaited, and the handler suspends in the
\* webhook's send, or ends when there is no webhook
delete_returns(g, outcome, webhook) ==
    /\ tasks[g].pc = "delete"
    /\ tasks' = [ tasks EXCEPT ![g] =
                    IF outcome = "Forbidden" \/ ~webhook THEN IdleTask
                    ELSE [ tasks[g] EXCEPT !.pc = "send" ] ]
    /\ last' = Op("delete", g, NoGets, "none", FALSE, tasks[g].message)
    /\ UNCHANGED << now, store, configs, configs_nc, rebuilds, since_save,
                    since_invalidate, writes, filter_vars, pattern_vars, call_vars, jail_vars >>

\* the webhook's send returns: the filtered text is reposted
send_returns(g) ==
    /\ tasks[g].pc = "send"
    /\ tasks' = [ tasks EXCEPT ![g] = IdleTask ]
    /\ last' = Op("send", g, NoGets, "none", FALSE, tasks[g].new_content)
    /\ UNCHANGED << now, store, configs, configs_nc, rebuilds, since_save,
                    since_invalidate, writes, filter_vars, pattern_vars, call_vars, jail_vars >>

\* on_member_join: with no jail and no join system configured it returns after
\* config_cache.get
on_member_join(g) ==
    /\ GetEffect({g})
    /\ last' = Op("on_member_join", g, [ NoGets EXCEPT ![g] = GetRecord(g) ], "none",
                  FALSE, << >>)
    /\ UNCHANGED << now, store, tasks, writes, filter_vars, pattern_vars, call_vars, jail_vars >>

\* on_member_update: with no jail role configured it returns after config_cache.get
on_member_update(g) ==
    /\ GetEffect({g})
    /\ last' = Op("on_member_update", g, [ NoGets EXCEPT ![g] = GetRecord(g) ], "none",
                  FALSE, << >>)
    /\ UNCHANGED << now, store, tasks, writes, filter_vars, pattern_vars, call_vars, jail_vars >>

\* one round of check_join_roles_task: config_cache.get for every guild; with no
\* join system enabled the loop body has no await
check_join_roles_task ==
    /\ GetEffect(Guilds)
    /\ last' = Op("check_join_roles_task", 0, [ g \in Guilds |-> GetRecord(g) ], "none",
                  FALSE, << >>)
    /\ UNCHANGED << now, store, tasks, writes, filter_vars, pattern_vars, call_vars, jail_vars >>

\* one round of cleanup_cache_task
cleanup_cache_task ==
    /\ configs' = cleanup_expired_cache(configs, now)
    /\ rebuilds' = [ g \in Guilds |->
                       IF configs'[g] # configs[g] THEN 0 ELSE rebuilds[g] ]
    /\ last' = Op("cleanup", 0, NoGets, "none", FALSE, << >>)
    /\ UNCHANGED << now, store, tasks, configs_nc, since_save, since_invalidate,
                    writes, filter_vars, pattern_vars, call_vars, jail_vars >>

\* save_server_config(g, config): the file is replaced, or the write fails and
\* the exception is raised again; finally the guild's entry is invalidated
save_server_config(g, config, ok) ==
    /\ store' = IF ok THEN [ store EXCEPT ![g] = JsonFile(config) ] ELSE store
    /\ configs' = invalidate(configs, g)
    /\ configs_nc' = invalidate(configs_nc, g)
    /\ rebuilds' = [ rebuilds EXCEPT ![g] = 0 ]
    /\ since_save' = [ since_save EXCEPT ![g] = ok ]
    /\ since_invalidate' = [ since_invalidate EXCEPT ![g] = TRUE ]

\* /addfilter
add_filter(g, replacement, words, ok) ==
    LET word_list == [ i \in 1..Len(words) |-> str_lower(words[i]) ]
        loaded    == load_server_config(store[g])
    IN  /\ writes < MaxWrites
        /\ writes' = writes + 1
        /\ save_server_config(g, add_filter_config(loaded.config, replacement, word_list), ok)
        /\ last' = Op("add_filter", g, NoGets, IF ok THEN "ok" ELSE "failed", FALSE, words)
        /\ UNCHANGED << now, tasks, filter_vars, pattern_vars, call_vars, jail_vars >>

\* /deletefilter
delete_filter(g, w, ok) ==
    LET word   == str_lower(w)
        loaded == load_server_config(store[g])
    IN  /\ writes < MaxWrites
        /\ writes' = writes + 1
        /\ IF delete_filter_found(loaded.config, word)
           THEN /\ save_server_config(g, delete_filter_config(loaded.config, word), ok)
                /\ last' = Op("delete_filter", g, NoGets, IF ok THEN "ok" ELSE "failed",
                              FALSE, word)
                /\ UNCHANGED << now, tasks, filter_vars, pattern_vars, call_vars, jail_vars >>
           ELSE /\ last' = Op("delete_filter", g, NoGets, "none", FALSE, word)
                /\ UNCHANGED << now, store, configs, tasks, configs_nc, rebuilds,
                                since_save, since_invalidate, filter_vars, pattern_vars, call_vars, jail_vars >>

\* /renamefilter
rename_filter(g, old_replacement, new_replacement, ok) ==
    LET loaded == load_server_config(store[g])
    IN  /\ writes < MaxWrites
        /\ writes' = writes + 1
        /\ IF HasReplacement(loaded.config, old_replacement)
           THEN /\ save_server_config(g, rename_filter_config(loaded.config, old_replacement,
                                                              new_replacement), ok)
                /\ last' = Op("rename_filter", g, NoGets, IF ok THEN "ok" ELSE "failed",
                              FALSE, old_replacement)
                /\ UNCHANGED << now, tasks, filter_vars, pattern_vars, call_vars, jail_vars >>
           ELSE /\ last' = Op("rename_filter", g, NoGets, "none", FALSE, old_replacement)
                /\ UNCHANGED << now, store, configs, tasks, configs_nc, rebuilds,
                                since_save, since_invalidate, filter_vars, pattern_vars, call_vars, jail_vars >>

\* /deletereplacement: the warning with its confirmation view is sent when the
\* replacement is in the configuration
delete_replacement(g, replacement) ==
    LET loaded == load_server_config(store[g])
    IN  /\ HasReplacement(loaded.config, replacement)
        /\ << g, replacement >> \notin views
        /\ views' = views \cup { << g, replacement >> }
        /\ UNCHANGED << cache_vars, filter_vars, pattern_vars, call, jail_vars >>

\* ConfirmationView.confirm: the replacement is deleted if it is still there
ConfirmationView_confirm(g, replacement, ok) ==
    LET loaded == load_server_config(store[g])
    IN  /\ << g, replacement >> \in views
        /\ writes < MaxWrites
        /\ writes' = writes + 1
        /\ views' = views \ { << g, replacement >> }
        /\ IF HasReplacement(loaded.config, replacement)
           THEN /\ save_server_config(g, del_replacement(loaded.config, replacement), ok)
                /\ last' = Op("confirm", g, NoGets, IF ok THEN "ok" ELSE "failed",
                              FALSE, replacement)
                /\ UNCHANGED << now, tasks, filter_vars, pattern_vars, call, jail_vars >>
           ELSE /\ last' = Op("confirm", g, NoGets, "none", FALSE, replacement)
                /\ UNCHANGED << now, store, configs, tasks, configs_nc, rebuilds,
                                since_save, since_invalidate, filter_vars, pattern_vars, call, jail_vars >>

\* ConfirmationView.cancel, or the view timing out
ConfirmationView_cancel(g, replacement) ==
    /\ << g, replacement >> \in views
    /\ views' = views \ { << g, replacement >> }
    /\ UNCHANGED << cache_vars, filter_vars, pattern_vars, call, jail_vars >>

\* the file of a guild is changed, removed or damaged outside the bot
external_edit(g, file) ==
    /\ store[g] # file
    /\ writes < MaxWrites
    /\ writes' = writes + 1
    /\ store' = [ store EXCEPT ![g] = file ]
    /\ since_save' = [ since_save EXCEPT ![g] = FALSE ]
    /\ last' = Op("external_edit", g, NoGets, "none", FALSE, << >>)
    /\ UNCHANGED << now, configs, tasks, configs_nc, rebuilds, since_invalidate,
                    filter_vars, pattern_vars, call_vars, jail_vars >>

\* time passes
Tick ==
    /\ now + TickStep <= MaxTime
    /\ now' = now + TickStep
    /\ rebuilds' = [ g \in Guilds |->
                       IF cache_hit(configs[g], now) /\ ~cache_hit(configs[g], now')
                       THEN 0 ELSE rebuilds[g] ]
    /\ last' = Op("tick", 0, NoGets, "none", FALSE, << >>)
    /\ UNCHANGED << store, configs, tasks, configs_nc, since_save, since_invalidate,
                    writes, filter_vars, pattern_vars, call_vars, jail_vars >>

CacheNext ==
    \/ \E g \in Guilds, m \in Messages : on_message(g, m)
    \/ \E g \in Guilds, outcome \in { "ok", "NotFound", "Forbidden" }, webhook \in BOOLEAN :
          delete_returns(g, outcome, webhook)
    \/ \E g \in Guilds : send_returns(g)
    \/ \E g \in Guilds : on_member_join(g)
    \/ \E g \in Guilds : on_member_update(g)
    \/ check_join_roles_task
    \/ cleanup_cache_task
    \/ \E g \in Guilds, r \in CommandReplacements, w \in CommandWords, ok \in BOOLEAN :
          add_filter(g, r, << w >>, ok)
    \/ \E g \in Guilds, w \in CommandWords, ok \in BOOLEAN : delete_filter(g, w, ok)
    \/ \E g \in Guilds, file \in EditedFiles : external_edit(g, file)
    \/ Tick

Init == CacheInit /\ FilterIdle /\ PatternIdle /\ JailIdle
Next == CacheNext
Spec == Init /\ [][Next]_vars

-----------------------------------------------------------------------------
(* One call of detect_and_replace_words, statement by statement, followed   *)
(* by a second call on the text the first one returned.                     *)

\* the texts filtered: every text of up to MaxLen characters of Alphabet, and
\* some longer ones
MaxLen == 5
Alphabet == { "a", "b", "-" }
SampleTexts ==
    { << "s", "a", "b", " ", "s", " ", "a", "b" >>,
      << "S", "a", "b", "s", " ", "a", "-", "b", "-", "a", "-", "b" >>,
      << "s", "-", "a", "b", "S" >>,
      << "a", "-", "b", " ", "a", ".", "b", " ", "b", "-", "a", "s" >> }
Texts == UNION { [ 1..n -> Alphabet ] : n \in 0..MaxLen } \cup SampleTexts

Rule(word, replacement, whitelist) ==
    [ word |-> word, replacement |-> replacement, whitelist |-> whitelist ]

\* the rule sets filtered with; no replacement holds a forbidden word
RuleSets ==
    { << >>,
      << Rule(<< "s", "a", "b" >>, << "x" >>, << >>) >>,
      << Rule(<< "a", "-", "b" >>, << "x" >>, << >>),
         Rule(<< "b", "-", "a" >>, << "y" >>, << << "a", ".", "b" >> >>),
         Rule(<< "a" >>, << "z" >>, << >>) >>,
      << Rule(<< "b", "-", "a" >>, << "x" >>, << >>),
         Rule(<< "b" >>, << "x", "y", "z" >>, << >>) >>,
      << Rule(<< "a" >>, << "z" >>, << << "a", "-", "a" >> >>) >>,
      << Rule(<< "a", "-", "-", "-", "b" >>, << "x" >>, << >>) >> }

FilterStart ==
    /\ content \in Texts
    /\ forbidden \in RuleSets
    /\ first_input = content
    /\ pass = 1
    /\ pc = "start"
    /\ matches_to_replace = << >>
    /\ filtered_matches = << >>
    /\ accepted = {}
    /\ idx = 0
    /\ new_content = << >>

\* if not forbidden: return content
ReturnUnfiltered ==
    /\ pc = "start"
    /\ forbidden = << >>
    /\ new_content' = content
    /\ pc' = "done"
    /\ UNCHANGED << content, forbidden, matches_to_replace, filtered_matches, accepted,
                    idx, pass, first_input, cache_vars, pattern_vars, call_vars, jail_vars >>

\* the loop over forbidden.items() that fills matches_to_replace
CollectMatches ==
    /\ pc = "start"
    /\ forbidden # << >>
    /\ matches_to_replace' = collect_matches(content, forbidden, 1)
    /\ pc' = "sort"
    /\ UNCHANGED << content, forbidden, filtered_matches, accepted, idx, new_content,
                    pass, first_input, cache_vars, pattern_vars, call_vars, jail_vars >>

\* matches_to_replace.sort(key=lambda x: x[0], reverse=True)
SortMatches ==
    /\ pc = "sort"
    /\ matches_to_replace' = sort_matches(matches_to_replace)
    /\ filtered_matches' = << >>
    /\ accepted' = {}
    /\ idx' = 0
    /\ pc' = "resolve"
    /\ UNCHANGED << content, forbidden, new_content, pass, first_input, cache_vars, pattern_vars, call_vars, jail_vars >>

\* one iteration of the loop that fills filtered_matches
ResolveOverlap ==
    /\ pc = "resolve"
    /\ idx < Len(matches_to_replace)
    /\ LET m == matches_to_replace[idx + 1]
       IN  IF overlaps_existing(m, filtered_matches)
           THEN UNCHANGED << filtered_matches, accepted >>
           ELSE /\ filtered_matches' = Append(filtered_matches, m)
                /\ accepted' = accepted \cup { idx + 1 }
    /\ idx' = idx + 1
    /\ UNCHANGED << content, forbidden, matches_to_replace, new_content, pc, pass,
                    first_input, cache_vars, pattern_vars, call_vars, jail_vars >>

\* the loop is over: new_content = content
ResolveDone ==
    /\ pc = "resolve"
    /\ idx = Len(matches_to_replace)
    /\ new_content' = content
    /\ idx' = 0
    /\ pc' = "apply"
    /\ UNCHANGED << content, forbidden, matches_to_replace, filtered_matches, accepted,
                    pass, first_input, cache_vars, pattern_vars, call_vars, jail_vars >>

\* one iteration of the loop that applies filtered_matches
ApplyReplacement ==
    /\ pc = "apply"
    /\ idx < Len(filtered_matches)
    /\ new_content' = replace_span(new_content, filtered_matches[idx + 1])
    /\ idx' = idx + 1
    /\ UNCHANGED << content, forbidden, matches_to_replace, filtered_matches, accepted,
                    pc, pass, first_input, cache_vars, pattern_vars, call_vars, jail_vars >>

\* return new_content
ReturnFiltered ==
    /\ pc = "apply"
    /\ idx = Len(filtered_matches)
    /\ pc' = "done"
    /\ UNCHANGED << content, forbidden, matches_to_replace, filtered_matches, accepted,
                    idx, new_content, pass, first_input, cache_vars, pattern_vars, call_vars, jail_vars >>

\* the text returned is filtered again with the same rules
FilterAgain ==
    /\ pc = "done"
    /\ pass = 1
    /\ content' = new_content
    /\ pass' = 2
    /\ pc' = "start"
    /\ matches_to_replace' = << >>
    /\ filtered_matches' = << >>
    /\ accepted' = {}
    /\ idx' = 0
    /\ new_content' = << >>
    /\ UNCHANGED << forbidden, first_input, cache_vars, pattern_vars, call_vars, jail_vars >>

FilterNext ==
    \/ ReturnUnfiltered
    \/ CollectMatches
    \/ SortMatches
    \/ ResolveOverlap
    \/ ResolveDone
    \/ ApplyReplacement
    \/ ReturnFiltered
    \/ FilterAgain

FilterInit == CacheInit /\ FilterStart /\ PatternIdle /\ JailIdle
SpecFilter == FilterInit /\ [][FilterNext]_vars

-----------------------------------------------------------------------------
(* Calls of detect_and_replace_words through the one word_filter of the     *)
(* process, at different times and with different rule sets.                *)

PatternTickStep == pattern_timeout \div TicksPerTimeout
PatternMaxTime  == MaxTicks * PatternTickStep

\* detect_and_replace_words(text, rules), called now
filter_text(text, rules) ==
    LET run == detect_with_cache(text, rules, patterns, now)
        res == [ content |-> text, forbidden |-> rules, output |-> run.output,
                 filtered_matches |-> run.filtered_matches ]
    IN  /\ patterns' = run.cache
        /\ results' = results \cup { res }
        /\ last_run' = [ called |-> TRUE, content |-> text, forbidden |-> rules,
                         output |-> run.output,
                         filtered_matches |-> run.filtered_matches,
                         hits |-> run.hits,
                         seen |-> \E r \in results :
                                     r.content = text /\ r.forbidden = rules ]
        /\ UNCHANGED << cache_vars, filter_vars, call_vars, jail_vars >>

\* time passes for the pattern cache
PatternTick ==
    /\ now + PatternTickStep <= PatternMaxTime
    /\ now' = now + PatternTickStep
    /\ UNCHANGED << store, configs, tasks, configs_nc, rebuilds, since_save,
                    since_invalidate, last, writes, filter_vars, pattern_vars, call_vars, jail_vars >>

PatternNext ==
    \/ \E text \in PatternTexts, rules \in PatternRuleSets : filter_text(text, rules)
    \/ PatternTick

PatternInit == CacheInit /\ FilterIdle /\ PatternIdle /\ JailIdle
SpecPatterns == PatternInit /\ [][PatternNext]_vars

-----------------------------------------------------------------------------
(* The helpers of the filter called on their own, on every argument of a    *)
(* bounded set.                                                             *)

\* the matched texts: every text of 1 to MaxMatchLen characters of MatchAlphabet
MaxMatchLen == 3
MatchAlphabet == { "a", "A", "s", "S", "-" }
MatchTexts == UNION { [ 1..n -> MatchAlphabet ] : n \in 1..MaxMatchLen }

\* the replacements of the rules
Replacements ==
    { << "x" >>, << "k", "i", "t", "t", "y" >>, << "F", "i", "s", "h" >>,
      << "b", "o", "X" >>, << "c", "h" >> }

\* the terms of the rules
BaseWords == { << "a" >>, << "a", "s" >>, << "a", "-", "a" >> }

\* preserve_case(original, replacement)
call_preserve_case(original, replacement) ==
    /\ call = NoCall
    /\ call' = [ fn |-> "preserve_case", args |-> << original, replacement >>,
                 result |-> preserve_case(original, replacement) ]
    /\ UNCHANGED << cache_vars, filter_vars, pattern_vars, views, jail_vars >>

\* the rendering of a match of the term base_word: is_plural, then
\* pluralize_replacement or preserve_case
call_final_replacement(matched_text, base_word, replacement) ==
    /\ call = NoCall
    /\ call' = [ fn |-> "final_replacement",
                 args |-> << matched_text, base_word, replacement >>,
                 result |-> final_replacement(matched_text, base_word, replacement) ]
    /\ UNCHANGED << cache_vars, filter_vars, pattern_vars, views, jail_vars >>

\* the longest term
MaxTermLen == 4

\* the letters of the terms: i and t have a filler among their leetspeak
\* alternatives, s is the plural marker
TermAlphabet == { "i", "s", "t" }

Terms == UNION { [ 1..n -> TermAlphabet ] : n \in MinEvasionLen..MaxTermLen }

\* what may follow the word in the text: nothing, or a plural s
Suffixes == { << >>, << "s" >> }

\* word with the character at position i (1-based) replaced by filler
Substituted(word, i, filler) == [ j \in 1..Len(word) |-> IF j = i THEN filler ELSE word[j] ]

\* detect_and_replace_words(content, forbidden) for the single rule
\* word -> replacement and the content made of word with one character
\* replaced by a filler; recorded with what the leetspeak/wildcard pattern of
\* get_pattern finds in the content and what the validation says of the content
call_detect_and_replace_words(word, replacement, i, filler, suffix) ==
    LET text    == Substituted(word, i, filler) \o suffix
        p       == get_pattern(word)[2]
    IN  /\ call = NoCall
        /\ call' = [ fn |-> "detect_and_replace_words",
                     args |-> << text, word, replacement, i, filler >>,
                     result |-> [ leet     |-> finditer(p.pattern, text),
                                  rejected |-> evasion_rejected(text, p.base_word),
                                  output   |-> detect_and_replace_words(text,
                                                   << Rule(word, replacement, << >>) >>) ] ]
        /\ UNCHANGED << cache_vars, filter_vars, pattern_vars, views, jail_vars >>

\* the configuration files load_server_config is given: one entry whose
\* replacement or words may be empty, followed by the entry y -> cd
LoadedReplacements == { << >>, << "x" >> }
LoadedWordLists    == { << << "a", "b" >> >>, << << >> >>, << << >>, << "A", "b" >> >> }
ConfigFiles ==
    { MissingFile, CorruptFile }
    \cup { JsonFile([ replacements |->
                        << [ replacement |-> r, words |-> ws, whitelist |-> << >> ],
                           [ replacement |-> << "y" >>, words |-> << << "c", "d" >> >>,
                             whitelist |-> << >> ] >> ]) :
             r \in LoadedReplacements, ws \in LoadedWordLists }

\* load_server_config on a guild whose configuration file is file
call_load_server_config(file) ==
    /\ call = NoCall
    /\ call' = [ fn |-> "load_server_config", args |-> << file >>,
                 result |-> load_server_config(file) ]
    /\ UNCHANGED << cache_vars, filter_vars, pattern_vars, views, jail_vars >>

\* the longest evasion given to the validation
MaxEvasionLen == 5

\* the terms and the characters of the evasions given to the validation
ValidatedTerms  == { << "s", "i", "t" >>, << "s", "-", "-", "t" >> }
EvasionAlphabet == { "s", "i", "t", "5", "*" }
Evasions == UNION { [ 1..n -> EvasionAlphabet ] : n \in 1..MaxEvasionLen }

\* the text is, from end to end, a match of an evasion pattern of the word
IsEvasionOf(text, word) ==
    \E k \in 2..Len(get_pattern(word)) :
        \E j \in 1..Len(finditer(get_pattern(word)[k].pattern, text)) :
            finditer(get_pattern(word)[k].pattern, text)[j] = [ start |-> 0, end |-> Len(text) ]

\* the first test of the validation of evasions, on a match of an evasion
\* pattern of base_word
call_validation(matched_text, base_word) ==
    /\ call = NoCall
    /\ IsEvasionOf(matched_text, base_word)
    /\ call' = [ fn |-> "validation", args |-> << matched_text, base_word >>,
                 result |-> too_few_letters(matched_text, base_word) ]
    /\ UNCHANGED << cache_vars, filter_vars, pattern_vars, views, jail_vars >>

\* the longest stretched evasion given to the validation
MaxStretchLen == 6

\* the terms and the characters of the stretched evasions
StretchedTerms  == { << "i", "s", "s" >>, << "s", "i", "s" >> }
StretchAlphabet == { "s", "i", "5", "1", "_" }
Stretched == UNION { [ 1..n -> StretchAlphabet ] : n \in 1..MaxStretchLen }

\* the second test of the validation of evasions, on a match of an evasion
\* pattern of base_word that passed the first test
call_length_validation(matched_text, base_word) ==
    /\ call = NoCall
    /\ IsEvasionOf(matched_text, base_word)
    /\ ~too_few_letters(matched_text, base_word)
    /\ call' = [ fn |-> "length_validation", args |-> << matched_text, base_word >>,
                 result |-> too_long_collapsed(matched_text, base_word) ]
    /\ UNCHANGED << cache_vars, filter_vars, pattern_vars, views, jail_vars >>

\* the longest run put between two characters of a spaced-out term
MaxSepLen == 3

\* the terms that are spaced out, and the runs put between their characters
SpacedTerms  == { << "f", "a", "g" >>, << "s", "i", "s" >> }
SepAlphabet  == { " ", "." }
Runs == UNION { [ 1..n -> SepAlphabet ] : n \in 0..MaxSepLen }

\* the characters of word in order, with seps[i] after the character i
RECURSIVE spaced_out(_, _, _)
spaced_out(word, seps, i) ==
    IF i > Len(word) THEN << >>
    ELSE << word[i] >> \o (IF i < Len(word) THEN seps[i] ELSE << >>)
         \o spaced_out(word, seps, i + 1)

\* detect_and_replace_words(content, forbidden) for the single rule
\* word -> replacement and the content made of word spaced out by seps;
\* recorded with what the spaced pattern of get_pattern finds in the content
\* and what the validation says of the content
call_detect_spaced(word, replacement, seps) ==
    LET text == spaced_out(word, seps, 1)
        p    == get_pattern(word)[3]
    IN  /\ call = NoCall
        /\ call' = [ fn |-> "detect_spaced",
                     args |-> << text, word, replacement, seps >>,
                     result |-> [ spaced   |-> finditer(p.pattern, text),
                                  rejected |-> evasion_rejected(text, p.base_word),
                                  output   |-> detect_and_replace_words(text,
                                                   << Rule(word, replacement, << >>) >>) ] ]
        /\ UNCHANGED << cache_vars, filter_vars, pattern_vars, views, jail_vars >>

\* the most patterns that raise re.error in one call
MaxErrors == 2

\* the patterns of the rules, as << rule, pattern >>, and the sets of them
\* that raise re.error
PatternIds(rules) ==
    UNION { { << k, j >> : j \in 1..Len(get_pattern(rules[k].word)) } : k \in 1..Len(rules) }
Raising(rules) == { r \in SUBSET PatternIds(rules) : Cardinality(r) <= MaxErrors }

\* detect_and_replace_words(text, rules) when the patterns of raising raise
\* re.error
call_detect_regex_error(text, rules, raising) ==
    /\ call = NoCall
    /\ call' = [ fn |-> "detect_regex_error", args |-> << text, rules, raising >>,
                 result |-> detect_and_replace_words_raising(text, rules, raising) ]
    /\ UNCHANGED << cache_vars, filter_vars, pattern_vars, views, jail_vars >>

\* one call in a behaviour
CallsNext ==
    \/ /\ call = NoCall
       /\ \E original \in MatchTexts, replacement \in Replacements :
             call_preserve_case(original, replacement)
    \/ /\ call = NoCall
       /\ \E matched_text \in MatchTexts, base_word \in BaseWords, replacement \in Replacements :
             call_final_replacement(matched_text, base_word, replacement)
    \/ /\ call = NoCall
       /\ \E word \in Terms, i \in 1..MaxTermLen, filler \in WildcardChars, suffix \in Suffixes :
             /\ i <= Len(word)
             /\ call_detect_and_replace_words(word, << "k", "i", "t", "t", "y" >>, i, filler, suffix)
    \/ /\ call = NoCall
       /\ \E file \in ConfigFiles : call_load_server_config(file)
    \/ /\ call = NoCall
       /\ \E matched_text \in Evasions, base_word \in ValidatedTerms :
             call_validation(matched_text, base_word)
    \/ /\ call = NoCall
       /\ \E matched_text \in Stretched, base_word \in StretchedTerms :
             call_length_validation(matched_text, base_word)
    \/ /\ call = NoCall
       /\ \E word \in SpacedTerms, sep1 \in Runs, sep2 \in Runs :
             call_detect_spaced(word, << "k", "i", "t", "t", "y" >>, << sep1, sep2 >>)
    \/ /\ call = NoCall
       /\ \E text \in SampleTexts, rules \in RuleSets :
             \E raising \in Raising(rules) : call_detect_regex_error(text, rules, raising)

CallsInit == CacheInit /\ FilterIdle /\ PatternIdle /\ JailIdle
SpecCalls == CallsInit /\ [][CallsNext]_vars

-----------------------------------------------------------------------------
(* The admin commands on the configurations of the guilds.                 *)

\* the replacements and the words the admins give
AdminReplacements == { << "x" >>, << "y" >> }
AdminWords        == { << "a" >>, << "B" >> }
\* the comma-separated words given to /addfilter, as the list of their parts
AdminWordLists    == { << w >> : w \in AdminWords } \cup { << << "a" >>, << "a" >> >> }

AdminNext ==
    \/ \E g \in Guilds, r \in AdminReplacements, ws \in AdminWordLists, ok \in BOOLEAN :
          add_filter(g, r, ws, ok)
    \/ \E g \in Guilds, w \in AdminWords, ok \in BOOLEAN : delete_filter(g, w, ok)
    \/ \E g \in Guilds, old \in AdminReplacements, new \in AdminReplacements, ok \in BOOLEAN :
          rename_filter(g, old, new, ok)
    \/ \E g \in Guilds, r \in AdminReplacements : delete_replacement(g, r)
    \/ \E g \in Guilds, r \in AdminReplacements, ok \in BOOLEAN :
          ConfirmationView_confirm(g, r, ok)
    \/ \E g \in Guilds, r \in AdminReplacements : ConfirmationView_cancel(g, r)

AdminInit == CacheInit /\ FilterIdle /\ PatternIdle /\ JailIdle
SpecAdmin == AdminInit /\ [][AdminNext]_vars

-----------------------------------------------------------------------------
(* The jail system.  load_server_config makes new objects from the file;   *)
(* config_cache.get returns the objects of its entry; a handler runs       *)
(* without interruption from one await to the next.                        *)

\* the most commands, messages, joins and manual role changes in a behaviour
MaxCommands == 4

\* saved_roles: the roles that are not default, not managed and not the jail role
saved_roles(roles, jail_role_id) ==
    { r \in roles : r # DefaultRole /\ r \notin ManagedRoles /\ r # jail_role_id }

\* roles_to_keep: the jail role and the managed and default roles
roles_to_keep(roles, jail_role) ==
    { jail_role } \cup { r \in roles : r \in ManagedRoles \/ r = DefaultRole }

\* the member update Discord sends when the roles of a member change
MemberUpdate(u, before, after) == [ user |-> u, before |-> before, after |-> after ]
dispatch(queue, u, before, after) ==
    IF before = after THEN queue ELSE Append(queue, MemberUpdate(u, before, after))

\* a call of save_server_config: who called, the object written, the number
\* of saves the caller's configuration is based on, and the number of saves made
SaveRecord(by, id, based_on) ==
    [ by |-> by, config |-> id, based_on |-> based_on, at |-> Len(saves) ]

\* save_server_config(guild, config): the file is replaced by the dump of
\* the object, and finally the guild's cache entry is invalidated
save_object(by, id, value, based_on) ==
    /\ disk' = value
    /\ cached_object' = 0
    /\ saves' = Append(saves, SaveRecord(by, id, based_on))

\* the object on_member_update writes to: the one of the fresh load
write_path_cached(cached_id, fresh_id) == cached_id
write_path_config(cached_id, fresh_id) == fresh_id

\* /setjailrole
set_jail_role(role) ==
    LET id == Len(objects) + 1
        admin_config == [ disk EXCEPT !.jail_role_id = role ]
    IN  /\ commands < MaxCommands
        /\ commands' = commands + 1
        /\ objects' = Append(objects, admin_config)
        /\ save_object("set_jail_role", id, admin_config, Len(saves))
        /\ UNCHANGED << member_roles, published, events, jail_tasks, update_tasks,
                        cache_vars, filter_vars, pattern_vars, call_vars >>

\* an admin gives the jail role to a member, or takes it, by hand
manual_role_change(u) ==
    LET after == IF JailRole \in member_roles[u] THEN member_roles[u] \ { JailRole }
                 ELSE member_roles[u] \cup { JailRole }
    IN  /\ commands < MaxCommands
        /\ commands' = commands + 1
        /\ member_roles' = [ member_roles EXCEPT ![u] = after ]
        /\ events' = dispatch(events, u, member_roles[u], after)
        /\ UNCHANGED << disk, objects, cached_object, published, jail_tasks, update_tasks,
                        saves, cache_vars, filter_vars, pattern_vars, call_vars >>

\* /jail, up to await user.edit(...)
jail_user_start(u) ==
    LET id           == Len(objects) + 1
        admin_config == disk
        jail_role_id == admin_config.jail_role_id
        recorded     == [ admin_config EXCEPT !.jailed_users[u] =
                            [ jailed |-> TRUE,
                              roles |-> saved_roles(member_roles[u], jail_role_id) ] ]
        returns(outcome) ==
            /\ objects' = Append(objects, admin_config)
            /\ jail_tasks' = [ jail_tasks EXCEPT ![u] =
                                 [ IdleJail EXCEPT !.pc = "done", !.outcome = outcome ] ]
            /\ UNCHANGED << disk, cached_object, saves >>
    IN  /\ commands < MaxCommands
        /\ jail_tasks[u].pc # "edit"
        /\ commands' = commands + 1
        /\ IF jail_role_id = "" THEN returns("no jail role")
           ELSE IF admin_config.jailed_users[u].jailed THEN returns("already jailed")
           ELSE /\ objects' = Append(objects, recorded)
                /\ save_object("jail_user", id, recorded, Len(saves))
                /\ jail_tasks' = [ jail_tasks EXCEPT ![u] =
                                     [ pc |-> "edit", config |-> id, seen |-> Len(saves) + 1,
                                       roles_to_keep |-> roles_to_keep(member_roles[u], jail_role_id),
                                       roles_before |-> member_roles[u],
                                       outcome |-> "pending" ] ]
        /\ UNCHANGED << member_roles, published, events, update_tasks,
                        cache_vars, filter_vars, pattern_vars, call_vars >>

\* /jail, from the return of await user.edit(...): the roles are changed, or
\* discord.Forbidden is raised and the record is taken back, or another
\* exception is raised and logged
jail_user_edit(u, outcome) ==
    LET task     == jail_tasks[u]
        rollback == [ objects[task.config] EXCEPT !.jailed_users[u] = NotJailed ]
    IN  /\ task.pc = "edit"
        /\ jail_tasks' = [ jail_tasks EXCEPT ![u].pc = "done", ![u].outcome = outcome ]
        /\ CASE outcome = "jailed" ->
                  /\ member_roles' = [ member_roles EXCEPT ![u] = task.roles_to_keep ]
                  /\ events' = dispatch(events, u, member_roles[u], task.roles_to_keep)
                  /\ UNCHANGED << disk, objects, cached_object, saves >>
             [] outcome = "forbidden" ->
                  /\ objects' = [ objects EXCEPT ![task.config] = rollback ]
                  /\ save_object("jail_user rollback", task.config, rollback, task.seen)
                  /\ UNCHANGED << member_roles, events >>
             [] OTHER ->
                  UNCHANGED << member_roles, events, disk, objects, cached_object, saves >>
        /\ UNCHANGED << published, update_tasks, commands,
                        cache_vars, filter_vars, pattern_vars, call_vars >>

\* on_member_update(before, after), up to its await or its return, on the
\* oldest member update
on_member_update_start ==
    LET e         == Head(events)
        u         == e.user
        hit       == cached_object # 0
        loaded    == IF hit THEN objects ELSE Append(objects, disk)
        cached_id == IF hit THEN cached_object ELSE Len(objects) + 1
        fresh_id  == Len(loaded) + 1
        fresh     == Append(loaded, disk)
        id        == write_path_config(cached_id, fresh_id)
        admin_config == fresh[id]
        jail_role_id == admin_config.jail_role_id
        was_jailed   == jail_role_id \in e.before
        is_jailed    == jail_role_id \in e.after
        keep         == roles_to_keep(e.after, jail_role_id)
        recorded     == [ admin_config EXCEPT !.jailed_users[u] =
                            [ jailed |-> TRUE, roles |-> saved_roles(e.before, jail_role_id) ] ]
        released     == [ admin_config EXCEPT !.jailed_users[u] = NotJailed ]
        roles_to_add == admin_config.jailed_users[u].roles
    IN  /\ events # << >>
        /\ events' = Tail(events)
        /\ published' = published \cup { cached_id }
        /\ IF loaded[cached_id].jail_role_id = ""
           THEN /\ objects' = loaded
                /\ cached_object' = cached_id
                /\ UNCHANGED << disk, saves, update_tasks >>
           ELSE IF ~was_jailed /\ is_jailed /\ ~admin_config.jailed_users[u].jailed
           THEN /\ objects' = [ fresh EXCEPT ![id] = recorded ]
                /\ save_object("on_member_update", id, recorded, Len(saves))
                /\ update_tasks' =
                      IF Cardinality(e.after) > Cardinality(keep)
                      THEN update_tasks \cup { [ op |-> "edit", user |-> u, roles |-> keep ] }
                      ELSE update_tasks
           ELSE IF was_jailed /\ ~is_jailed /\ admin_config.jailed_users[u].jailed
           THEN /\ objects' = [ fresh EXCEPT ![id] = released ]
                /\ save_object("on_member_update", id, released, Len(saves))
                /\ update_tasks' =
                      IF roles_to_add # {}
                      THEN update_tasks \cup { [ op |-> "add_roles", user |-> u,
                                                 roles |-> roles_to_add ] }
                      ELSE update_tasks
           ELSE /\ objects' = fresh
                /\ cached_object' = cached_id
                /\ UNCHANGED << disk, saves, update_tasks >>
        /\ UNCHANGED << member_roles, jail_tasks, commands,
                        cache_vars, filter_vars, pattern_vars, call_vars >>

\* on_member_update, from the return of await after.edit(roles=...) or
\* await after.add_roles(...); an exception is logged
on_member_update_resume(task, ok) ==
    LET u     == task.user
        after == IF ~ok THEN member_roles[u]
                 ELSE IF task.op = "edit" THEN task.roles
                 ELSE member_roles[u] \cup task.roles
    IN  /\ task \in update_tasks
        /\ update_tasks' = update_tasks \ { task }
        /\ member_roles' = [ member_roles EXCEPT ![u] = after ]
        /\ events' = dispatch(events, u, member_roles[u], after)
        /\ UNCHANGED << disk, objects, cached_object, published, jail_tasks, saves, commands,
                        cache_vars, filter_vars, pattern_vars, call_vars >>

\* config_cache.get(guild): the objects of the entry, made by
\* load_server_config when there is no entry
get_object ==
    /\ objects' = IF cached_object # 0 THEN objects ELSE Append(objects, disk)
    /\ cached_object' = IF cached_object # 0 THEN cached_object ELSE Len(objects) + 1
    /\ published' = published \cup { cached_object' }

\* the member leaves and joins again: on_member_join gives the jail role to
\* a member it finds in the jailed_users of the cache
on_member_join_rejail(u) ==
    LET admin_config == objects'[cached_object']
        after == IF admin_config.jailed_users[u].jailed /\ admin_config.jail_role_id # ""
                 THEN { DefaultRole, admin_config.jail_role_id } ELSE { DefaultRole }
    IN  /\ commands < MaxCommands
        /\ jail_tasks[u].pc # "edit"
        /\ \A task \in update_tasks : task.user # u
        /\ commands' = commands + 1
        /\ get_object
        /\ member_roles' = [ member_roles EXCEPT ![u] = after ]
        /\ events' = dispatch(events, u, { DefaultRole }, after)
        /\ UNCHANGED << disk, jail_tasks, update_tasks, saves,
                        cache_vars, filter_vars, pattern_vars, call_vars >>

\* on_message and check_join_roles_task: config_cache.get, and no write
read_only_handler ==
    /\ commands < MaxCommands
    /\ commands' = commands + 1
    /\ cached_object = 0
    /\ get_object
    /\ UNCHANGED << member_roles, disk, events, jail_tasks, update_tasks, saves,
                    cache_vars, filter_vars, pattern_vars, call_vars >>

\* the entry is older than cache_timeout and cleanup_expired_cache drops it
cleanup_expired_object ==
    /\ cached_object # 0
    /\ cached_object' = 0
    /\ UNCHANGED << member_roles, disk, objects, published, events, jail_tasks,
                    update_tasks, saves, commands,
                    cache_vars, filter_vars, pattern_vars, call_vars >>

JailNext ==
    \/ set_jail_role(JailRole)
    \/ \E u \in Members : manual_role_change(u)
    \/ \E u \in Members : jail_user_start(u)
    \/ \E u \in Members, outcome \in { "jailed", "forbidden", "error" } : jail_user_edit(u, outcome)
    \/ on_member_update_start
    \/ \E task \in update_tasks, ok \in BOOLEAN : on_member_update_resume(task, ok)
    \/ \E u \in Members : on_member_join_rejail(u)
    \/ read_only_handler
    \/ cleanup_expired_object

JailInit == CacheInit /\ FilterIdle /\ PatternIdle /\ JailIdle
SpecJail == JailInit /\ [][JailNext]_vars

-----------------------------------------------------------------------------
(* The rule cache: ConfigCache.get, invalidate, cleanup_expired_cache.      *)

\* what get decides on: an entry exists and its age is below the timeout
Fresh(entry) == entry.present /\ (now - entry.timestamp) < cache_timeout

\* what a load of guild g's file gives in the current state
Stored(g) == load_server_config(store[g])

\* C1: get returns the cached snapshot and makes no load when the guild has an
\* entry younger than 300 seconds, whatever the file holds by then; otherwise
\* it makes exactly one load, stores the result with the current time and
\* returns it.
C1_GetServesFreshEntryElseLoadsOnce ==
    \A g \in Guilds :
        LET r == last.gets[g]
        IN  r.called =>
              IF r.pre.present /\ (now - r.pre.timestamp) < 300
              THEN /\ r.loads = 0
                   /\ r.config = r.pre.config
                   /\ r.forbidden = r.pre.forbidden
                   /\ configs[g] = r.pre
              ELSE /\ r.loads = 1
                   /\ r.config = Stored(g).config
                   /\ r.forbidden = Stored(g).forbidden
                   /\ configs[g] = [ present |-> TRUE, config |-> Stored(g).config,
                                     forbidden |-> Stored(g).forbidden,
                                     timestamp |-> now ]

\* a get served from the cache although the file holds other rules by now
C1_Witness ==
    \E g \in Guilds :
        /\ last.gets[g].called
        /\ last.gets[g].pre.present
        /\ last.gets[g].loads = 0
        /\ last.gets[g].forbidden # Stored(g).forbidden

C2_AbsentThenRebuilt ==
    /\ last.saved # "none" => ~configs[last.guild].present
    /\ \A g \in Guilds :
          LET r == last.gets[g]
          IN  r.called /\ r.after_invalidate =>
                /\ r.loads = 1
                /\ r.config = Stored(g).config
                /\ r.forbidden = Stored(g).forbidden

C2_OthersKept ==
    last'.saved # "none" => \A h \in Guilds \ { last'.guild } : configs'[h] = configs[h]

\* C2: after invalidate(guild) the guild has no entry and the next get for it
\* rebuilds from the store; the entries of the other guilds stay as they were.
C2_InvalidateDropsOneGuild == [] C2_AbsentThenRebuilt /\ [][C2_OthersKept]_vars

\* an entry is invalidated while another guild holds one
C2_Witness ==
    /\ last.saved # "none"
    /\ last.dropped.present
    /\ \E h \in Guilds \ { last.guild } : configs[h].present

\* C3: every save_server_config that reaches the write, successful or not,
\* ends with no entry for the guild, and the first get after a successful save
\* returns the rules that save wrote, never older ones.
C3_SaveLeavesNoEntry ==
    /\ last.saved \in { "ok", "failed" } => configs[last.guild] = NoEntry
    /\ \A g \in Guilds :
          LET r == last.gets[g]
          IN  r.called /\ r.after_save =>
                /\ store[g].kind = "json"
                /\ r.loads = 1
                /\ r.config = store[g].config
                /\ r.forbidden = build_forbidden(store[g].config.replacements,
                                                 Len(store[g].config.replacements))

\* the first get after a successful save, returning the rules saved
C3_Witness ==
    \E g \in Guilds :
        /\ last.gets[g].called
        /\ last.gets[g].after_save
        /\ last.gets[g].forbidden # << >>

\* C4: when the load made to rebuild an expired entry fails, get keeps the
\* stale entry and returns it.
C4_StaleEntryRetained ==
    \A g \in Guilds :
        LET r == last.gets[g]
        IN  /\ r.called
            /\ r.pre.present
            /\ ~ ((now - r.pre.timestamp) < cache_timeout)
            /\ store[g].kind = "corrupt"
            => /\ r.config = r.pre.config
               /\ r.forbidden = r.pre.forbidden
               /\ configs[g].config = r.pre.config
               /\ configs[g].forbidden = r.pre.forbidden

\* a get for a guild with no entry whose file is missing or cannot be decoded
C5_NoEntryNoRules(g) ==
    /\ last.gets[g].called
    /\ ~ last.gets[g].pre.present
    /\ store[g].kind \in { "missing", "corrupt" }

C5_EmptyRuleSet ==
    \A g \in Guilds :
        C5_NoEntryNoRules(g) =>
            /\ ~ last.gets[g].raised
            /\ last.gets[g].forbidden = << >>
            /\ \A m \in Messages :
                  detect_and_replace_words(m, last.gets[g].forbidden) = m

C5_MessageLeftAlone ==
    \A g \in Guilds :
        (last'.op = "on_message" /\ last'.guild = g /\ C5_NoEntryNoRules(g)') =>
            tasks' = tasks

C6_OneLoadPerStaleness == \A g \in Guilds : rebuilds[g] <= 1

\* check_join_roles_task runs while an on_message handler of the guild is
\* suspended, and is served the entry that handler loaded
C6_Witness ==
    \E g \in Guilds :
        /\ tasks[g].pc # "idle"
        /\ last.op = "check_join_roles_task"
        /\ last.gets[g].loads = 0
        /\ rebuilds[g] = 1

\* C7: cleanup_expired_cache removes only entries older than the timeout,
\* which get treats as stale already, and get returns the same values whether
\* or not cleanup has run.
C7_CleanupUnobservable ==
    \A g \in Guilds :
        /\ \/ configs[g] = configs_nc[g]
           \/ /\ ~ configs[g].present
              /\ configs_nc[g].present
              /\ (now - configs_nc[g].timestamp) > cache_timeout
              /\ ~ Fresh(configs_nc[g])
        /\ last.gets[g].called =>
              /\ last.gets[g].config = last.gets[g].nc_config
              /\ last.gets[g].forbidden = last.gets[g].nc_forbidden

\* a get for an entry that cleanup has removed
C7_Witness ==
    \E g \in Guilds :
        /\ last.gets[g].called
        /\ last.gets[g].pre # last.gets[g].nc_pre
        /\ last.gets[g].forbidden # << >>

-----------------------------------------------------------------------------
(* The filter: detect_and_replace_words.                                    *)

\* C8: filtering is idempotent: the second call, on the text the first call
\* returned and with the same rules, returns that text unchanged.
C8_Idempotent == (pc = "done" /\ pass = 2) => new_content = content

\* two half-open spans share a position
Intersects(a, b) == a.start < b.end /\ b.start < a.end

\* C9: the matches accepted into filtered_matches are pairwise disjoint: of
\* any two of them, one ends at or before the start of the other.
C9_AcceptedDisjoint ==
    \A i, j \in 1..Len(filtered_matches) :
        i # j => \/ filtered_matches[i].end <= filtered_matches[j].start
                 \/ filtered_matches[j].end <= filtered_matches[i].start

\* the loop has accepted two matches or more and discarded one
C9_Witness ==
    /\ pc = "apply"
    /\ Len(filtered_matches) >= 2
    /\ Len(filtered_matches) < Len(matches_to_replace)

\* the positions of the sorted list the overlap loop has been through
Considered ==
    IF pc = "resolve" THEN 1..idx
    ELSE IF pc \in { "apply", "done" } THEN 1..Len(matches_to_replace)
    ELSE {}

\* the candidates are taken in descending order of start offset
C10_DescendingStart ==
    pc \in { "resolve", "apply", "done" } =>
        \A i, j \in 1..Len(matches_to_replace) :
            i < j => matches_to_replace[i].start >= matches_to_replace[j].start

\* a candidate is accepted iff it intersects no candidate accepted before it,
\* and filtered_matches holds the accepted candidates
C10_AcceptRule ==
    /\ \A k \in Considered :
          k \in accepted <=>
              \A j \in accepted :
                  j < k => ~ Intersects(matches_to_replace[k], matches_to_replace[j])
    /\ accepted \subseteq Considered
    /\ Len(filtered_matches) = Cardinality(accepted)
    /\ \A n \in 1..Len(filtered_matches) :
          \E k \in accepted :
              /\ filtered_matches[n] = matches_to_replace[k]
              /\ Cardinality({ j \in accepted : j <= k }) = n

\* a candidate is discarded only for an accepted candidate it intersects that
\* starts at or after its own start
C10_DiscardCause ==
    \A k \in Considered \ accepted :
        \E j \in accepted :
            /\ Intersects(matches_to_replace[k], matches_to_replace[j])
            /\ matches_to_replace[j].start >= matches_to_replace[k].start

\* of two candidates that intersect, the one that starts further left is not
\* the one kept
C10_RightmostKept ==
    pc \in { "apply", "done" } =>
        \A i, j \in 1..Len(matches_to_replace) :
            ( /\ Intersects(matches_to_replace[i], matches_to_replace[j])
              /\ matches_to_replace[i].start > matches_to_replace[j].start )
            => j \notin accepted

\* C10 as stated: descending start order, accept iff no accepted span is
\* intersected, hence of two intersecting candidates the one with the greater
\* start offset is the one kept, and a candidate is discarded only for an
\* accepted candidate that starts at or after it.
C10_Stated ==
    /\ C10_DescendingStart
    /\ C10_AcceptRule
    /\ C10_RightmostKept
    /\ C10_DiscardCause

\* two candidates that intersect are never both kept; where the one that
\* starts further left is kept, the other was discarded for a third, accepted
\* candidate that does not reach the kept one
C10_RightmostKeptUnlessDiscarded ==
    \A i, j \in Considered :
        ( /\ Intersects(matches_to_replace[i], matches_to_replace[j])
          /\ matches_to_replace[i].start > matches_to_replace[j].start
          /\ j \in accepted )
        => /\ i \notin accepted
           /\ \E h \in accepted :
                 /\ h < i
                 /\ Intersects(matches_to_replace[h], matches_to_replace[i])
                 /\ ~ Intersects(matches_to_replace[h], matches_to_replace[j])

\* C10, amended: descending start order, accept iff no accepted span is
\* intersected; two intersecting candidates are never both kept, and the one
\* with the smaller start offset is kept only when the other was itself
\* discarded for a third accepted candidate; a candidate is discarded only for
\* an accepted candidate that starts at or after it.
C10_Amended ==
    /\ C10_DescendingStart
    /\ C10_AcceptRule
    /\ C10_RightmostKeptUnlessDiscarded
    /\ C10_DiscardCause

\* a candidate is kept although a candidate that starts further right
\* intersects it
C10_Witness ==
    /\ pc = "apply"
    /\ \E i, j \in 1..Len(matches_to_replace) :
          /\ Intersects(matches_to_replace[i], matches_to_replace[j])
          /\ matches_to_replace[i].start > matches_to_replace[j].start
          /\ j \in accepted
          /\ i \notin accepted

\* C11: detect_and_replace_words is deterministic: two calls with the same
\* text and the same rule set give the same accepted matches and the same
\* output, whatever the pattern cache holds, however old its entries are and
\* whatever was filtered before; they are what the patterns synthesized
\* afresh give.
C11_Deterministic ==
    /\ \A r1, r2 \in results :
          (r1.content = r2.content /\ r1.forbidden = r2.forbidden) =>
              (r1.output = r2.output /\ r1.filtered_matches = r2.filtered_matches)
    /\ last_run.called =>
          last_run.output = detect_and_replace_words(last_run.content, last_run.forbidden)

\* a call repeated on an input filtered before, served by cached patterns some
\* of which were synthesized again after they expired, with two candidates
\* that intersect resolved to one
C11_Witness ==
    /\ last_run.called
    /\ last_run.seen
    /\ last_run.hits > 0
    /\ \E key \in CacheKeys : patterns[key].present /\ patterns[key].last_update > 0
    /\ Len(last_run.filtered_matches) >= 2
    /\ last_run.output # last_run.content

\* the text read from left to right from offset p, with every span of the set
\* spans replaced by its replacement and every other character copied
RECURSIVE Rendered(_, _, _)
Rendered(text, spans, p) ==
    IF p >= Len(text) THEN << >>
    ELSE IF \E m \in spans : m.start = p
    THEN LET m == CHOOSE m \in spans : m.start = p
         IN  m.repl \o Rendered(text, spans, m.end)
    ELSE << text[p + 1] >> \o Rendered(text, spans, p + 1)

\* C12: the offsets of all matches are offsets of the original text and the
\* replacements are applied once, from right to left: after every replacement
\* applied, and at the return, the text is the original with exactly the spans
\* applied so far replaced by their replacements and every other character
\* kept in place; no replacement is looked at again in the same call.
C12_OnlyAcceptedSpansReplaced ==
    /\ pc = "apply" =>
          new_content = Rendered(content,
                                 { filtered_matches[k] : k \in 1..idx }, 0)
    /\ pc = "done" =>
          new_content = Rendered(content,
                                 { filtered_matches[k] : k \in 1..Len(filtered_matches) }, 0)
    /\ pc \in { "apply", "done" } =>
          \A k \in 1..Len(filtered_matches) :
              /\ 0 <= filtered_matches[k].start
              /\ filtered_matches[k].start < filtered_matches[k].end
              /\ filtered_matches[k].end <= Len(content)

\* a call returns after replacing one span by a longer text and another, to
\* its left, by a shorter one
C12_Witness ==
    /\ pc = "done"
    /\ \E i, j \in 1..Len(filtered_matches) :
          /\ filtered_matches[i].start > filtered_matches[j].start
          /\ Len(filtered_matches[i].repl)
                > filtered_matches[i].end - filtered_matches[i].start
          /\ Len(filtered_matches[j].repl)
                < filtered_matches[j].end - filtered_matches[j].start

\* every occurrence of phrase in text as a substring, letter case ignored,
\* occurrences that overlap each other included
Occurrences(phrase, text) ==
    { [ start |-> i, end |-> i + Len(phrase) ] :
        i \in { i \in 0..(Len(text) - Len(phrase)) :
                  str_lower(SubSeq(text, i + 1, i + Len(phrase))) = str_lower(phrase) } }

\* the span of m shares a character with an occurrence of a whitelist phrase
Whitelisted(m, whitelist, text) ==
    \E n \in 1..Len(whitelist) :
        \E occ \in Occurrences(whitelist[n], text) : Intersects(m, occ)

\* the candidate the match m of the pattern p of rule k appends, when kept
CandidateOf(k, p, m) ==
    [ start |-> m.start, end |-> m.end,
      repl  |-> final_replacement(Slice(content, m.start, m.end), p.base_word,
                                  forbidden[k].replacement) ]

\* C13: a match of a term's pattern is dropped if its span shares a character
\* with any occurrence in the text of a whitelist phrase of the term's rule,
\* overlapping occurrences included, and is not dropped for the whitelist
\* otherwise: after the collection loop a match that passes the evasion
\* validation is among the candidates iff it is not whitelisted.
C13_WhitelistedMatchesDropped ==
    pc = "sort" =>
        \A k \in 1..Len(forbidden) :
            LET ps == get_pattern(forbidden[k].word)
            IN  \A n \in 1..Len(ps) :
                    LET ms == finditer(ps[n].pattern, content)
                    IN  \A j \in 1..Len(ms) :
                            ~ (ps[n].is_evasion
                               /\ evasion_rejected(Slice(content, ms[j].start, ms[j].end),
                                                   ps[n].base_word))
                            => ( (\E i \in 1..Len(matches_to_replace) :
                                     matches_to_replace[i] = CandidateOf(k, ps[n], ms[j]))
                                 <=> ~ Whitelisted(ms[j], forbidden[k].whitelist, content) )

-----------------------------------------------------------------------------
(* The rendering of a replacement: preserve_case, pluralize_replacement.    *)

HasLetter(t) == \E i \in 1..Len(t) : t[i] \in LowerSet \cup UpperSet
AllUppercase(t) == HasLetter(t) /\ \A i \in 1..Len(t) : t[i] \notin LowerSet
AllLowercase(t) == HasLetter(t) /\ \A i \in 1..Len(t) : t[i] \notin UpperSet

\* a single capital, or a capital followed by all-lowercase
CapitalThenLowercase(t) ==
    /\ t[1] \in UpperSet
    /\ Len(t) = 1 \/ AllLowercase(SubSeq(t, 2, Len(t)))

\* first letter capitalized, the rest lowercase
Capitalized(t) ==
    [ i \in 1..Len(t) |-> IF i = 1 THEN upper(t[i]) ELSE lower(t[i]) ]

\* character i uppercase iff character i of the match is uppercase, lowercase
\* beyond the length of the match
CaseByPosition(match, t) ==
    [ i \in 1..Len(t) |->
        IF i <= Len(match) /\ match[i] \in UpperSet THEN upper(t[i]) ELSE lower(t[i]) ]

\* C14: for non-empty inputs preserve_case gives the uppercased replacement
\* for an all-uppercase match, the lowercased replacement for an all-lowercase
\* match, the capitalized replacement for a match that is a single capital or
\* a capital followed by all-lowercase, and for any other match the
\* replacement with the case of the match transferred position by position.
C14_CaseTransferred ==
    call.fn = "preserve_case" =>
        LET match == call.args[1]
            repl  == call.args[2]
        IN  /\ AllUppercase(match) => call.result = str_upper(repl)
            /\ AllLowercase(match) => call.result = str_lower(repl)
            /\ CapitalThenLowercase(match) => call.result = Capitalized(repl)
            /\ ~ (AllUppercase(match) \/ AllLowercase(match) \/ CapitalThenLowercase(match))
                  => call.result = CaseByPosition(match, repl)

\* the case of the match transferred onto t, the cases tried in the order of
\* preserve_case
CaseTransferred(match, t) ==
    IF AllUppercase(match) THEN str_upper(t)
    ELSE IF AllLowercase(match) THEN str_lower(t)
    ELSE IF CapitalThenLowercase(match) THEN Capitalized(t)
    ELSE CaseByPosition(match, t)

\* a final y becomes ies; es after a final sh, ch or x; s otherwise
Pluralized(t) ==
    IF t[Len(t)] = "y" THEN SubSeq(t, 1, Len(t) - 1) \o << "i", "e", "s" >>
    ELSE IF \/ t[Len(t)] = "x"
            \/ Len(t) >= 2 /\ t[Len(t) - 1] \in { "s", "c" } /\ t[Len(t)] = "h"
    THEN t \o << "e", "s" >>
    ELSE t \o << "s" >>

\* a match counts as plural when it ends in s or S and is longer than the term
PluralMatch(match, term) ==
    match[Len(match)] \in { "s", "S" } /\ Len(match) > Len(term)

\* C15: a plural match is rendered as the pluralized replacement with the case
\* of the match transferred onto it (a final y becomes ies, es is added after
\* a final sh, ch or x, s otherwise); a match that is not plural is rendered as
\* the replacement, case transferred, with no suffix.
C15_PluralRendered ==
    call.fn = "final_replacement" =>
        LET match == call.args[1]
            term  == call.args[2]
            repl  == call.args[3]
        IN  IF PluralMatch(match, term)
            THEN call.result = CaseTransferred(match, Pluralized(repl))
            ELSE call.result = CaseTransferred(match, repl)

\* the plural match "as" of the term "a" with the replacement kitty: kitties
C15_Witness ==
    /\ call.fn = "final_replacement"
    /\ PluralMatch(call.args[1], call.args[2])
    /\ call.args[3] = << "k", "i", "t", "t", "y" >>
    /\ call.result = << "k", "i", "t", "t", "i", "e", "s" >>

-----------------------------------------------------------------------------
(* Evasions by a filler symbol.                                            *)

\* the call filtered a content made of a term with position i replaced
FillerCall == call.fn = "detect_and_replace_words"

\* the replaced position is interior
Interior == 1 < call.args[4] /\ call.args[4] < Len(call.args[2])

\* the content is the substituted word alone, without a plural s
Alone == Len(call.args[1]) = Len(call.args[2])

\* the whole content, as a span
WholeContent == [ start |-> 0, end |-> Len(call.args[1]) ]

Edge == call.args[4] \in { 1, Len(call.args[2]) }

\* the filler is a leetspeak alternative of the character it replaces
FillerIsLeet ==
    /\ call.args[5] \in DOMAIN LEETSPEAK_MAP
    /\ LEETSPEAK_MAP[call.args[5]] = call.args[2][call.args[4]]

\* the term has no s, so that a plural s after it is no letter of the term
NoPluralLetter == \A j \in 1..Len(call.args[2]) : call.args[2][j] # "s"

\* C17 as stated: an input in which the first or last character of the term is
\* replaced by a filler symbol is never matched or replaced (the input alone,
\* or followed by a plural s when the term has no s of its own).
C17_Stated ==
    FillerCall /\ Edge /\ (Alone \/ NoPluralLetter) =>
        /\ call.result.leet = << >>
        /\ call.result.output = call.args[1]

\* the fillers that are leetspeak alternatives of the character c
LeetFillers(c) ==
    { f \in WildcardChars \cap DOMAIN LEETSPEAK_MAP : LEETSPEAK_MAP[f] = c }

\* C17, amended: in the leetspeak/wildcard pattern the class of the first or
\* last position of the term accepts a filler symbol only when it is a
\* leetspeak alternative of the character at that position (! for i, + for
\* t); a text that is the term with its first or last character replaced by
\* a filler symbol is not matched and is left unchanged; but when the filler is
\* a leetspeak alternative of the last character and a plural s follows it, the
\* text is matched whole and replaced.
C17_EdgeFillerNotMatched ==
    FillerCall /\ Edge =>
        /\ char_options(call.args[2], call.args[4]) \cap WildcardChars
              = LeetFillers(call.args[2][call.args[4]])
        /\ Alone =>
              /\ call.result.leet = << >>
              /\ call.result.output = call.args[1]
        /\ FillerIsLeet /\ ~Alone /\ call.args[4] = Len(call.args[2]) =>
              /\ call.result.leet = << WholeContent >>
              /\ call.result.output # call.args[1]

\* "ti+s" for the term "tit": the + is accepted for the last t, and the text
\* is replaced by the plural of the replacement
C17_Witness ==
    /\ FillerCall /\ Edge /\ FillerIsLeet /\ ~Alone
    /\ call.args[1] = << "t", "i", "+", "s" >>
    /\ call.args[2] = << "t", "i", "t" >>
    /\ call.result.output = << "k", "i", "t", "t", "i", "e", "s" >>

-----------------------------------------------------------------------------
(* The configuration under the admin commands.                             *)

\* the replacements of guild g's configuration file that list the word
ReplacementsOf(g, word) ==
    { i \in 1..Len(store[g].config.replacements) :
         \E j \in 1..Len(store[g].config.replacements[i].words) :
             store[g].config.replacements[i].words[j] = word }

\* the words of guild g's configuration file
ConfiguredWords(g) ==
    UNION { { store[g].config.replacements[i].words[j] :
                 j \in 1..Len(store[g].config.replacements[i].words) } :
            i \in 1..Len(store[g].config.replacements) }

\* C18: after any sequence of add_filter, delete_filter, rename_filter and
\* delete-replacement operations every banned term of a guild's configuration
\* is in the word list of exactly one replacement.
C18_OneReplacementPerTerm ==
    \A g \in Guilds : \A word \in ConfiguredWords(g) :
        Cardinality(ReplacementsOf(g, word)) = 1

-----------------------------------------------------------------------------
(* The rule set built from a configuration file.                           *)

\* the rule set has the term as a key, with the replacement
HasRule(rules, word, replacement) ==
    \E k \in 1..Len(rules) : rules[k].word = word /\ rules[k].replacement = replacement

\* C19: load_server_config skips a rule entry with an empty term or an empty
\* replacement: the empty term is never a key of forbidden, no key has the empty
\* replacement, and the well-formed terms of the configuration are all loaded.
C19_EmptyEntriesSkipped ==
    call.fn = "load_server_config" /\ call.args[1].kind = "json" =>
        LET rules        == call.result.forbidden
            replacements == call.args[1].config.replacements
        IN  /\ \A k \in 1..Len(rules) : rules[k].word # << >>
            /\ \A k \in 1..Len(rules) : rules[k].replacement # << >>
            /\ \A i \in 1..Len(replacements) : \A j \in 1..Len(replacements[i].words) :
                  replacements[i].replacement # << >> /\ replacements[i].words[j] # << >>
                  => HasRule(rules, str_lower(replacements[i].words[j]),
                             replacements[i].replacement)

-----------------------------------------------------------------------------
(* The validation of evasions.                                             *)

\* the text lowercased, with only the characters of the set kept
Cleaned(text, keep) == SelectSeq(str_lower(text), LAMBDA c : c \in keep)

Alphanumerics == LowerSet \cup UpperSet \cup Digits

\* how many characters of a occur anywhere in b
Occurring(a, b) ==
    Cardinality({ i \in 1..Len(a) : \E j \in 1..Len(b) : b[j] = a[i] })

\* C20 as stated: an evasion match is rejected iff fewer than half of the
\* characters of its clean match occur in the clean target, both lowercased
\* and stripped of non-alphanumeric characters; the ratio is taken over the
\* clean match.
C20_Stated ==
    call.fn = "validation" =>
        LET clean_match  == Cleaned(call.args[1], Alphanumerics)
            clean_target == Cleaned(call.args[2], Alphanumerics)
        IN  call.result <=> 2 * Occurring(clean_match, clean_target) < Len(clean_match)

\* C20, amended: an evasion match is rejected by the first test of the validator
\* iff its clean match (the matched text lowercased, only letters, digits and
\* underscores kept) is not empty and the number of its characters that occur
\* in the term (lowercased, nothing stripped) is less than half the length of
\* the term; the ratio is taken over the term's length.
C20_RejectedBelowHalfOfTerm ==
    call.fn = "validation" =>
        LET clean_match  == Cleaned(call.args[1], Alphanumerics \cup { "_" })
            clean_target == str_lower(call.args[2])
        IN  call.result <=> /\ Len(clean_match) > 0
                            /\ 2 * Occurring(clean_match, clean_target) < Len(clean_target)

\* "5*t" for the term "sit": one of the two characters of the clean match is
\* in the term, which is half of the clean match and a third of the term
C20_Witness ==
    /\ call.fn = "validation"
    /\ call.args = << << "5", "*", "t" >>, << "s", "i", "t" >> >>
    /\ call.result

\* the positions of text that do not repeat the character before them
RunStarts(text) == { i \in 1..Len(text) : i = 1 \/ text[i] # text[i - 1] }

\* the length of text after every run of one character is collapsed to one
CollapsedLen(text) == Cardinality(RunStarts(text))

\* the characters that stand twice in a row in text
Repeated(text) == { text[i] : i \in { j \in 2..Len(text) : text[j] = text[j - 1] } }

\* the characters of text
CharsOf(text) == { text[i] : i \in 1..Len(text) }

Distance(a, b) == IF a >= b THEN a - b ELSE b - a

\* C21 as stated: a match whose clean match is more than 2 characters longer
\* than the clean target is rejected unless the collapsed lengths differ by at
\* most 2 or every character repeated in the clean match is repeated in the
\* clean target; a match at most 2 characters longer is never rejected.
C21_Stated ==
    call.fn = "length_validation" =>
        LET clean_match  == Cleaned(call.args[1], Alphanumerics)
            clean_target == Cleaned(call.args[2], Alphanumerics)
        IN  call.result <=>
              /\ Len(clean_match) > Len(clean_target) + 2
              /\ ~ \/ Distance(CollapsedLen(clean_match), CollapsedLen(clean_target)) <= 2
                   \/ Repeated(clean_match) \subseteq Repeated(clean_target)

\* C21, amended: an evasion match that passed the first test is rejected by
\* the second iff its clean match (lowercased; letters, digits and underscores
\* kept), with runs collapsed, is more than 2 characters longer than the
\* lowercased term with runs collapsed, and no character of the clean match
\* stands twice in a row in the term.
C21_RejectedWhenCollapsedTooLong ==
    call.fn = "length_validation" =>
        LET clean_match  == Cleaned(call.args[1], Alphanumerics \cup { "_" })
            clean_target == str_lower(call.args[2])
        IN  call.result <=>
              /\ CollapsedLen(clean_match) > CollapsedLen(clean_target) + 2
              /\ CharsOf(clean_match) \cap Repeated(clean_target) = {}

\* "i1i_5" for the term "iss": two characters longer than the term, collapsed
\* three longer than the collapsed term, and no s in it
C21_Witness ==
    /\ call.fn = "length_validation"
    /\ call.args = << << "i", "1", "i", "_", "5" >>, << "i", "s", "s" >> >>
    /\ call.result

-----------------------------------------------------------------------------
(* The matches of the exact pattern.                                       *)

\* the exact pattern of the term of rule k: the first of get_pattern
ExactOf(k) == get_pattern(forbidden[k].word)[1]

\* C22: a match of the exact pattern is never subjected to the validation of
\* evasions: after the collection loop every match of the exact pattern of a
\* rule that shares no character with an occurrence of a whitelist phrase of
\* the rule is among the candidates.
C22_ExactMatchesAreCandidates ==
    pc = "sort" =>
        \A k \in 1..Len(forbidden) :
            LET ms == finditer(ExactOf(k).pattern, content)
            IN  \A j \in 1..Len(ms) :
                    ~ Whitelisted(ms[j], forbidden[k].whitelist, content)
                    => \E i \in 1..Len(matches_to_replace) :
                           matches_to_replace[i] = CandidateOf(k, ExactOf(k), ms[j])

\* the text "a---b" under the term "a---b": the exact match is the only
\* candidate, although the validation would reject it (2 letters of 5)
C22_Witness ==
    /\ pc = "sort"
    /\ content = << "a", "-", "-", "-", "b" >>
    /\ Len(forbidden) = 1 /\ forbidden[1].word = content
    /\ evasion_rejected(content, forbidden[1].word)
    /\ matches_to_replace = << [ start |-> 0, end |-> 5, repl |-> << "x" >> ] >>

-----------------------------------------------------------------------------
(* Plural matches.                                                         *)

\* the candidate expected of the match m of a pattern of rule k: plural when
\* the matched text ends in s or S and is longer than the term
ExpectedCandidate(k, m) ==
    LET matched == Slice(content, m.start, m.end)
        repl    == forbidden[k].replacement
    IN  [ start |-> m.start, end |-> m.end,
          repl  |-> IF PluralMatch(matched, forbidden[k].word)
                    THEN CaseTransferred(matched, Pluralized(repl))
                    ELSE CaseTransferred(matched, repl) ]

\* the candidates expected of the matches the collection loop keeps, of every
\* pattern of every rule
ExpectedCandidates ==
    UNION { UNION { { ExpectedCandidate(k, m) :
                        m \in { ms \in { finditer(p.pattern, content)[j] :
                                           j \in 1..Len(finditer(p.pattern, content)) } :
                                  match_kept(ms, p, forbidden[k].whitelist, content) } } :
                    p \in { get_pattern(forbidden[k].word)[n] :
                              n \in 1..Len(get_pattern(forbidden[k].word)) } } :
            k \in 1..Len(forbidden) }

\* C23: a match is rendered as a plural iff its matched text ends in s or S and
\* is strictly longer than its term, whatever pattern found it: the candidates
\* after the collection loop are exactly the ones so rendered.
C23_PluralIffEndsInSAndLonger ==
    pc = "sort" =>
        { matches_to_replace[i] : i \in 1..Len(matches_to_replace) } = ExpectedCandidates

\* "s-abS" under the term "sab": an evasion match ending in S and longer than
\* the term, rendered as the plural of x
C23_Witness ==
    /\ pc = "sort"
    /\ content = << "s", "-", "a", "b", "S" >>
    /\ Len(forbidden) = 1 /\ forbidden[1].word = << "s", "a", "b" >>
    /\ \E i \in 1..Len(matches_to_replace) :
          /\ matches_to_replace[i].start = 0 /\ matches_to_replace[i].end = 5
          /\ Len(matches_to_replace[i].repl) = 3

-----------------------------------------------------------------------------
(* The pattern list of a term and its use in the scan.                     *)

\* the pattern matches the text from end to end
MatchesWhole(pattern, text) == MatchAt(pattern, 1, 0, text) = Len(text)

\* the word with its first character doubled, and with a space between its
\* characters
Doubled(word) == << word[1] >> \o word
SpacedOut(word) ==
    [ i \in 1..(2 * Len(word) - 1) |-> IF i % 2 = 1 THEN word[(i + 1) \div 2] ELSE " " ]

\* the patterns of a term, told apart by what they match: the exact pattern
\* matches the term and the term with an s and no evasion, the
\* leetspeak/wildcard pattern a doubled character and no spacing, the spaced
\* pattern a spacing and no doubled character
PatternListOf(word) ==
    LET ps == get_pattern(word)
    IN  /\ Len(ps) = IF Len(word) < 3 THEN 1 ELSE 3
        /\ ~ps[1].is_evasion
        /\ MatchesWhole(ps[1].pattern, word) /\ MatchesWhole(ps[1].pattern, word \o << "s" >>)
        /\ ~MatchesWhole(ps[1].pattern, Doubled(word))
        /\ Len(word) > 1 => ~MatchesWhole(ps[1].pattern, SpacedOut(word))
        /\ Len(word) >= 3 =>
              /\ ps[2].is_evasion /\ ps[3].is_evasion
              /\ MatchesWhole(ps[2].pattern, Doubled(word))
              /\ ~MatchesWhole(ps[2].pattern, SpacedOut(word))
              /\ MatchesWhole(ps[3].pattern, SpacedOut(word))
              /\ ~MatchesWhole(ps[3].pattern, Doubled(word))
        /\ \A n \in 1..Len(ps) : ps[n].base_word = word

\* the number of matches of pattern n of rule k that the loop body keeps
KeptCount(k, n) ==
    LET ps == get_pattern(forbidden[k].word)
    IN  IF n > Len(ps) THEN 0
        ELSE Cardinality({ j \in 1..Len(finditer(ps[n].pattern, content)) :
                              match_kept(finditer(ps[n].pattern, content)[j], ps[n],
                                         forbidden[k].whitelist, content) })

RECURSIVE KeptOfRules(_)
KeptOfRules(k) ==
    IF k = 0 THEN 0
    ELSE KeptOfRules(k - 1) + KeptCount(k, 1) + KeptCount(k, 2) + KeptCount(k, 3)

\* C24: the pattern list of a term begins with the exact pattern, not an
\* evasion; a term shorter than 3 has that pattern only, a term of 3 or more
\* has exactly the exact, the leetspeak/wildcard and the spaced pattern in
\* this order, the last two tagged evasion; every pattern is applied in the
\* scan: the candidates number the kept matches of all patterns of all rules.
C24_PatternListAndAllApplied ==
    pc = "sort" =>
        /\ \A k \in 1..Len(forbidden) : PatternListOf(forbidden[k].word)
        /\ Len(matches_to_replace) = KeptOfRules(Len(forbidden))

\* "a-b" under the term "a-b": each of the three patterns gives a candidate
\* for the whole text
C24_Witness ==
    /\ pc = "sort"
    /\ content = << "a", "-", "b" >>
    /\ forbidden[1].word = content
    /\ Cardinality({ i \in 1..Len(matches_to_replace) :
                        matches_to_replace[i].start = 0 /\ matches_to_replace[i].end = 3 }) = 3

-----------------------------------------------------------------------------
(* C25: the spaced-out form of a term.                                     *)

SpacedCall == call.fn = "detect_spaced"

\* the run is whitespace, then punctuation, then whitespace
Shaped(sep) ==
    ~ \E a \in 1..Len(sep), b \in 1..Len(sep), c \in 1..Len(sep) :
          /\ a < b /\ b < c
          /\ sep[a] \notin Spaces /\ sep[b] \in Spaces /\ sep[c] \notin Spaces

AllShaped == \A i \in 1..Len(call.args[4]) : Shaped(call.args[4][i])

\* the spaced pattern matches the content from end to end
SpacedWhole ==
    \E j \in 1..Len(call.result.spaced) : call.result.spaced[j] = WholeContent

\* the content is replaced, as a whole, by the rendering of the replacement
SpacedReplaced ==
    call.result.output = final_replacement(call.args[1], call.args[2], call.args[3])

-----------------------------------------------------------------------------
(* C26: a pattern that raises re.error.                                    *)

ErrorCall == call.fn = "detect_regex_error"

\* the ids of the patterns of the rules, in the order of the loops, from id on
RECURSIVE IdsFrom(_, _, _)
IdsFrom(rules, k, j) ==
    IF k > Len(rules) THEN << >>
    ELSE IF j > Len(get_pattern(rules[k].word)) THEN IdsFrom(rules, k + 1, 1)
    ELSE << << k, j >> >> \o IdsFrom(rules, k, j + 1)

\* the subsequence of ids whose elements are in S
RECURSIVE Only(_, _)
Only(ids, S) ==
    IF ids = << >> THEN << >>
    ELSE (IF Head(ids) \in S THEN << Head(ids) >> ELSE << >>) \o Only(Tail(ids), S)

\* the matches the patterns ids give on the text, one pattern after the other
RECURSIVE MatchesOf(_, _, _)
MatchesOf(ids, rules, text) ==
    IF ids = << >> THEN << >>
    ELSE LET p == get_pattern(rules[Head(ids)[1]].word)[Head(ids)[2]]
         IN  pattern_matches(finditer(p.pattern, text), p, rules[Head(ids)[1]], text, 1)
             \o MatchesOf(Tail(ids), rules, text)

\* C26: when patterns raise re.error, no exception leaves
\* detect_and_replace_words: the patterns that raised are printed, the matches
\* collected are those of all the other patterns (the exact pattern of the
\* same term and the patterns of the other terms among them), and the value
\* returned is the text with these matches replaced
C26_RegexErrorSkipsOnePattern ==
    ErrorCall =>
        LET text    == call.args[1]
            rules   == call.args[2]
            raising == call.args[3]
            ids     == IdsFrom(rules, 1, 1)
            kept    == MatchesOf(Only(ids, PatternIds(rules) \ raising), rules, text)
            sorted  == sort_matches(kept)
            chosen  == filter_overlaps(sorted, Len(sorted))
        IN  /\ ~call.result.raised
            /\ call.result.printed = Only(ids, raising)
            /\ call.result.matches = kept
            /\ call.result.value = (IF rules = << >> THEN text
                                    ELSE apply_replacements(text, chosen, Len(chosen)))
            /\ raising = {} => call.result.value = detect_and_replace_words(text, rules)

\* the leetspeak/wildcard pattern of sab raises; "Sabs" is still replaced
\* through the exact pattern
C26_Witness ==
    /\ ErrorCall
    /\ call.args[1] = << "S", "a", "b", "s", " ", "a", "-", "b", "-", "a", "-", "b" >>
    /\ call.args[2] = << Rule(<< "s", "a", "b" >>, << "x" >>, << >>) >>
    /\ call.args[3] = { << 1, 2 >> }
    /\ call.result.printed = << << 1, 2 >> >>
    /\ call.result.matches # << >>
    /\ ~call.result.raised
    /\ call.result.value # call.args[1]

-----------------------------------------------------------------------------
(* C27: the objects of a cache entry.                                      *)

\* a handler wrote the configuration after the cache had published an
\* object, and the published object still holds what it held
StalePublished ==
    /\ \E i \in 1..Len(saves) : saves[i].by = "on_member_update"
    /\ \E id \in published : objects[id] # disk

\* C27: an object that config_cache.get has stored in an entry is never
\* changed afterwards, whatever handler runs, and every save_server_config
\* writes an object that was never in the cache: the handlers that read the
\* cache change nothing, the handlers that write load their own objects.
C27_PublishedNeverMutated ==
    /\ [] (\A i \in 1..Len(saves) : saves[i].config \notin published)
    /\ [][ \A id \in published : objects'[id] = objects[id] ]_vars

C27_Witness ==
    /\ StalePublished
    /\ cached_object # 0
    /\ \E u \in Members : disk.jailed_users[u].jailed

-----------------------------------------------------------------------------
(* C28: the configuration a save is based on.                              *)

\* C28: every save_server_config writes a configuration based on the file as
\* it is at the moment of the save: no save of another handler was made
\* between the load (or the own previous save) of the handler and its save.
C28_NoLostUpdates ==
    \A i \in 1..Len(saves) : saves[i].based_on = saves[i].at

-----------------------------------------------------------------------------
(* C30: /jail and the member update it causes.                             *)

\* the /jail command on u ends in this step with the outcome
JailFinished(u, outcome) ==
    /\ jail_tasks[u].pc = "edit"
    /\ jail_tasks'[u].pc = "done"
    /\ jail_tasks'[u].outcome = outcome

\* what /jail records for the member
JailRecord(u) ==
    [ jailed |-> TRUE, roles |-> saved_roles(jail_tasks[u].roles_before, JailRole) ]

\* C30: when /jail changes the roles of a member the file already holds the
\* member's record; when /jail ends with success the file holds the roles the
\* member had before, without the default, managed and jail roles; when it
\* ends with discord.Forbidden the file does not hold the member; and
\* on_member_update never replaces the roles recorded for a member.
C30_JailRecordsRolesFirst ==
    [][ \A u \in Members :
          /\ JailFinished(u, "jailed") =>
                /\ disk.jailed_users[u] = JailRecord(u)
                /\ disk'.jailed_users[u] = JailRecord(u)
          /\ JailFinished(u, "forbidden") => ~disk'.jailed_users[u].jailed
          /\ (disk.jailed_users[u].jailed /\ disk'.jailed_users[u].jailed) =>
                disk'.jailed_users[u].roles = disk.jailed_users[u].roles ]_vars

-----------------------------------------------------------------------------
(* C29: a word deleted with /deletefilter.                                 *)

\* C29: after delete_filter reports that it removed the word, the rule set
\* load_server_config builds from the guild's configuration file does not
\* have the lowercased word as a key.
C29_DeletedWordNotFiltered ==
    (last.op = "delete_filter" /\ last.saved = "ok") =>
        ~ \E k \in 1..Len(load_server_config(store[last.guild]).forbidden) :
              load_server_config(store[last.guild]).forbidden[k].word = last.text

=============================================================================
